---- MODULE Spec2Model ----
(***************************************************************************)
(* A model of the transfer extractor, the flow-graph builder, the bounded  *)
(* expansion and the address-similarity scorer of solana-lens              *)
(* (scripts/analysis/network_builder.py, scripts/analysis/                 *)
(* address_analyzer.py).                                                   *)
(*                                                                         *)
(* Python values are modelled as follows.  None is the string NoneV.  An   *)
(* optional dictionary key is a sequence of length 0 (key absent) or 1     *)
(* (key present, holding the value).  A decimal string handed to int() is  *)
(* a record [neg, digits]; int() of a string without digits raises.        *)
(* A dict is kept as the sequence of its keys in insertion order, which is *)
(* the order Python iterates it in.                                        *)
(***************************************************************************)
EXTENDS Integers, Sequences, FiniteSets, TLC

VARIABLES
    \* --- NetworkBuilder._extract_transfers, one call -----------------------
    tx_detail,      \* the transaction record handed to _extract_transfers
    transfers,      \* the list the call returns
    raised,         \* TRUE when the call ended with an exception
    xpc,            \* "call" before the call, "returned" after it
    \* --- NetworkBuilder.build_transaction_graph, one call ------------------
    G,              \* the graph: [nodes, edges], edges a function of <<u, v>>
    arrived,        \* every transfer the loop has taken up, in order
    fetched,        \* how many transactions of the batch have been taken up
    gpc,            \* "building", "returned", or "raised"
    \* --- NetworkBuilder.build_transaction_flow_network, one call -----------
    FG,             \* the flow graph: [nodes, edges]; nodes maps an address
                    \* to its depth attribute, edges maps <<u, v>> to its attributes
    queue,          \* the frontier, a list of <<address, depth>>
    processed_addresses,
    depth,          \* the depth argument (max_depth)
    current,        \* <<current_address, current_depth>> of the running round
    pending,        \* the recent signatures of the round not yet taken up
    epc,            \* "loop" or "returned"
    reached,        \* least depth at which each address has been reached
    enqueued,       \* every <<neighbor, depth>> appended to the queue
    expanded,       \* every <<address, depth>> whose history was asked for
    served,         \* how many signatures the provider has returned
    listed,         \* every recent signature get_signatures_for_address returned
    asked,          \* every signature get_transaction was called with
    failed,         \* the nodes and edges of the graph when the provider last
                    \* failed: [history, transaction], <<>> without a failure
    \* --- AddressAnalyzer._calculate_address_similarity --------------------
    address,        \* the first argument, a string as a sequence of characters
    known_address,  \* the second argument
    similarity,     \* what the call (address, known_address) returned
    swapped,        \* what the call (known_address, address) returned
    spc,            \* "call", "returned" after the first call, "both"
    \* --- AddressAnalyzer.detect_layering_patterns, one call
    layer_address,  \* the address argument
    layer_history,  \* what get_signatures_for_address answers, with what
                    \* get_transaction answers for each signature
    layer_results,  \* the results dict
    lpc,            \* "call" or "returned"
    \* --- SandwichDetector._analyze_tx_with_balance_changes, one call
    sandwich_tx,    \* the tx_detail argument
    attack,         \* what the call returned: NoAttack for None
    wpc,            \* "call", "returned" or "raised"
    \* --- AddressAnalyzer.detect_money_laundering_routes
    route_address,
    route_clients,
    route_history,
    route_results,
    rtpc,
    \* --- TransactionCollector.fetch_transactions_paginated
    limit_total,    \* the limit_total argument
    signature_count,    \* len(all_signatures)
    pages,
    detail_index,    \* i of the batch loop
    transaction_details,    \* len(transaction_details)
    ppc,     \* "paging", "details" or "returned"
    \* --- AddressAnalyzer.detect_layering_patterns, the correlation of the events
    corr_split_events,
    corr_aggregation_events,
    correlation,    \* the results after the correlation loops
    cpc,     \* "call" or "returned"
    \* --- SandwichDetector._calculate_profit, one call
    profit_balances,    \* pre_balances and post_balances
    profit_result,    \* what _calculate_profit returned
    fpc,     \* "call" or "returned"
    \* --- AddressPoisoningCollector
    token_metadata_cache,    \* self.token_metadata_cache, mint -> verdict
    has_metadata_async,    \* whether the client has get_token_metadata_async
    verdict_calls,    \* the calls of _check_token_suspicious so far, in order
    tpc     \* where the collector is

extractVars == <<tx_detail, transfers, raised, xpc>>
graphVars == <<G, arrived, fetched, gpc>>
expandVars == <<FG, queue, processed_addresses, depth, current, pending, epc,
               reached, enqueued, expanded, served, listed, asked, failed>>

similarityVars == <<address, known_address, similarity, swapped, spc>>

layeringVars == <<layer_address, layer_history, layer_results, lpc>>

sandwichVars == <<sandwich_tx, attack, wpc>>

routesVars == <<route_address, route_clients, route_history, route_results, rtpc>>

paginateVars == <<limit_total, signature_count, pages, detail_index, transaction_details, ppc>>

correlateVars == <<corr_split_events, corr_aggregation_events, correlation, cpc>>

profitVars == <<profit_balances, profit_result, fpc>>

verdictVars == <<token_metadata_cache, has_metadata_async, verdict_calls, tpc>>

vars == <<extractVars, graphVars, expandVars, similarityVars,
         layeringVars,
         sandwichVars,
         routesVars,
         paginateVars,
         correlateVars,
         profitVars,
         verdictVars>>

----------------------------------------------------------------------------
(* Bounds of the model *)

\* most instructions (top-level plus inner) of an enumerated transaction
MaxIx == 2
\* most token accounts of an enumerated transaction
MaxAcct == 3
\* instructions, top-level and inner together, of a transaction whose
\* instructions all differ (the order of the output is read off these)
MaxOrderIx == 3
\* most transactions in the batch handed to build_transaction_graph
MaxBatch == 3
\* largest depth argument of build_transaction_flow_network
MaxDepth == 2
\* most instructions of a transaction the sandwich detector reads
MaxSwaps == 3
\* most signatures in the history the layering detector reads
MaxLayerHistory == 2
\* most signatures the provider returns during one expansion, over all
\* the addresses asked for
MaxSignatures == 3
\* longest address compared
MaxLen == 12

----------------------------------------------------------------------------
(* Python values *)

NoneV == "<None>"

\* bool(x) of an address-like value: None and the empty string are falsy
Truthy(x) == x # NoneV /\ x # ""

Some(v) == <<v>>
Absent == <<>>
Has(opt) == Len(opt) > 0

\* the decimal string of a natural number below 100, and of its negation
Dec(n) == [neg |-> FALSE, digits |-> IF n < 10 THEN <<n>> ELSE <<n \div 10, n % 10>>]
NegDec(n) == [neg |-> TRUE, digits |-> IF n < 10 THEN <<n>> ELSE <<n \div 10, n % 10>>]
\* the empty string
EmptyStr == [neg |-> FALSE, digits |-> <<>>]

RECURSIVE DigitsValue(_)
DigitsValue(d) ==
    IF Len(d) = 0 THEN 0
    ELSE 10 * DigitsValue(SubSeq(d, 1, Len(d) - 1)) + d[Len(d)]

\* int(s) raises ValueError on a string that holds no digit
IntRaises(s) == Len(s.digits) = 0
\* int(s) of a decimal string
IntOf(s) == IF s.neg THEN 0 - DigitsValue(s.digits) ELSE DigitsValue(s.digits)

\* the keys of a dict in insertion order: the distinct elements of a
\* sequence, in the order of their first appearance
RECURSIVE DistinctInOrder(_)
DistinctInOrder(s) ==
    IF Len(s) = 0 THEN <<>>
    ELSE LET front == DistinctInOrder(SubSeq(s, 1, Len(s) - 1))
             x == s[Len(s)]
         IN  IF \E i \in 1..Len(front) : front[i] = x THEN front ELSE Append(front, x)

MapSeq(F(_), s) == [i \in 1..Len(s) |-> F(s[i])]

----------------------------------------------------------------------------
(* NetworkBuilder._extract_transfers and its helpers *)

TOKEN_PROGRAM == "TokenkegQfeZyiNwAJbNbGKPFXCWuBvf9Ss623VQ5DA"
SYSTEM_PROGRAM == "11111111111111111111111111111111"

\* The running state of one extraction: the transfers list, and whether an
\* exception is propagating (nothing inside _extract_transfers catches one).
NewExtraction == [transfers |-> <<>>, raised |-> FALSE]

Raise(st) == [st EXCEPT !.raised = TRUE]

Emit(st, t) == [st EXCEPT !.transfers = Append(@, t)]

\* the amount string an SPL instruction carries: info["amount"] when the key
\* is present, else info["tokenAmount"]["amount"], else no string (amount 0)
SplAmountStr(ix) ==
    IF Has(ix.amount) THEN ix.amount
    ELSE IF Has(ix.tokenAmount) THEN ix.tokenAmount
    ELSE Absent

SplTransfer(ix, amount) ==
    [type |-> "SPL", mint |-> ix.mint, source |-> ix.source,
     destination |-> ix.destination, authority |-> ix.authority,
     amount |-> amount, detected_from_balances |-> FALSE]

_extract_spl_token_transfers(ix, st) ==
    IF ix.type \in {"transfer", "transferChecked"}
    THEN LET s == SplAmountStr(ix)
         IN  IF ~Has(s) THEN Emit(st, SplTransfer(ix, 0))
             ELSE IF IntRaises(s[1]) THEN Raise(st)
             ELSE Emit(st, SplTransfer(ix, IntOf(s[1])))
    ELSE st

SolTransfer(ix, amount) ==
    [type |-> "SOL", mint |-> "SOL", source |-> ix.source,
     destination |-> ix.destination, authority |-> NoneV,
     amount |-> amount, detected_from_balances |-> FALSE]

_extract_system_transfers(ix, st) ==
    IF ix.type = "transfer" \/ ix.type = "transferWithSeed"
    THEN Emit(st, SolTransfer(ix, IF Has(ix.lamports) THEN ix.lamports[1] ELSE 0))
    ELSE st

\* programIdIndex is None or not below len(account_keys)
BadProgramIndex(ix, account_keys) ==
    ~Has(ix.programIdIndex) \/ ix.programIdIndex[1] >= Len(account_keys)

ProgramId(ix, account_keys) == account_keys[ix.programIdIndex[1] + 1]

\* one instruction, top-level or inner: the index test and the dispatch
ParseInstruction(ix, account_keys, st) ==
    IF BadProgramIndex(ix, account_keys) THEN st
    ELSE IF ProgramId(ix, account_keys) = TOKEN_PROGRAM
         THEN _extract_spl_token_transfers(ix, st)
    ELSE IF ProgramId(ix, account_keys) = SYSTEM_PROGRAM
         THEN _extract_system_transfers(ix, st)
    ELSE st

\* for inner_ix in inner_ix_group["instructions"]
RECURSIVE InnerInstructionLoop(_, _, _, _)
InnerInstructionLoop(ixs, k, account_keys, st) ==
    IF k > Len(ixs) \/ st.raised THEN st
    ELSE InnerInstructionLoop(ixs, k + 1, account_keys,
                              ParseInstruction(ixs[k], account_keys, st))

\* for inner_ix_group in inner_instructions: if group["index"] == ix_idx
RECURSIVE InnerGroupLoop(_, _, _, _, _)
InnerGroupLoop(groups, g, ix_idx, account_keys, st) ==
    IF g > Len(groups) \/ st.raised THEN st
    ELSE InnerGroupLoop(groups, g + 1, ix_idx, account_keys,
            IF groups[g].index = ix_idx
            THEN InnerInstructionLoop(groups[g].instructions, 1, account_keys, st)
            ELSE st)

\* the same body with the inner groups walked before the instruction itself
InnerFirstInstruction(tx, ix_idx, st) ==
    LET ix == tx.instructions[ix_idx + 1]
    IN  IF BadProgramIndex(ix, tx.accountKeys) THEN st
        ELSE LET st1 == InnerGroupLoop(tx.innerInstructions, 1, ix_idx, tx.accountKeys, st)
             IN  IF st1.raised THEN st1
                 ELSE ParseInstruction(ix, tx.accountKeys, st1)

\* the body of "for ix_idx, ix in enumerate(instructions)"; a bad program
\* index "continue"s past the inner instructions of that instruction too
OuterInstruction(tx, ix_idx, st) ==
    LET ix == tx.instructions[ix_idx + 1]
    IN  IF BadProgramIndex(ix, tx.accountKeys) THEN st
        ELSE LET st1 == ParseInstruction(ix, tx.accountKeys, st)
             IN  IF st1.raised THEN st1
                 ELSE InnerGroupLoop(tx.innerInstructions, 1, ix_idx, tx.accountKeys, st1)

RECURSIVE OuterInstructionLoop(_, _, _)
OuterInstructionLoop(tx, ix_idx, st) ==
    IF ix_idx >= Len(tx.instructions) \/ st.raised THEN st
    ELSE OuterInstructionLoop(tx, ix_idx + 1, OuterInstruction(tx, ix_idx, st))

----------------------------------------------------------------------------
(* NetworkBuilder._extract_transfers_from_balance_changes *)

\* the records the map-building loops keep: "if owner and mint"
Kept(bals) == SelectSeq(bals, LAMBDA b : Truthy(b.owner) /\ Truthy(b.mint))

OwnerOf(b) == b.owner
MintOf(b) == b.mint
IndexOf(b) == b.accountIndex

\* the keys of pre_map / post_map at each of the three levels, in
\* insertion order
MapOwners(bals) == DistinctInOrder(MapSeq(OwnerOf, Kept(bals)))

MapMints(bals, owner) ==
    DistinctInOrder(MapSeq(MintOf, SelectSeq(Kept(bals), LAMBDA b : b.owner = owner)))

MapAccounts(bals, owner, mint) ==
    DistinctInOrder(MapSeq(IndexOf,
        SelectSeq(Kept(bals), LAMBDA b : b.owner = owner /\ b.mint = mint)))

\* map.get(owner, {}).get(mint, {}).get(idx, 0): the last record stored
\* under the key, 0 when there is none
MapGet(bals, owner, mint, idx) ==
    LET hits == SelectSeq(Kept(bals),
                    LAMBDA b : b.owner = owner /\ b.mint = mint /\ b.accountIndex = idx)
    IN  IF Len(hits) = 0 THEN 0 ELSE IntOf(hits[Len(hits)].amount)

\* int(bal["uiTokenAmount"]["amount"]) is evaluated for every record
BalancesRaise(bals) == \E i \in 1..Len(bals) : IntRaises(bals[i].amount)

Abs(n) == IF n < 0 THEN 0 - n ELSE n

\* "for owner, mints in post_map.items(): for mint, accounts in
\* mints.items(): for acc_idx, post_amount in accounts.items()" as one
\* sequence of (owner, mint, acc_idx)
RECURSIVE Concat(_)
Concat(ss) == IF Len(ss) = 0 THEN <<>> ELSE ss[1] \o Concat(Tail(ss))

PostAccounts(post) ==
    Concat([o \in 1..Len(MapOwners(post)) |->
        LET owner == MapOwners(post)[o]
        IN  Concat([m \in 1..Len(MapMints(post, owner)) |->
                LET mint == MapMints(post, owner)[m]
                IN  [a \in 1..Len(MapAccounts(post, owner, mint)) |->
                        [owner |-> owner, mint |-> mint,
                         acc_idx |-> MapAccounts(post, owner, mint)[a]]]])])

BalanceTransfer(source_owner, owner, mint, change) ==
    [type |-> "SPL", mint |-> mint, source |-> source_owner,
     destination |-> owner, authority |-> NoneV,
     amount |-> change, detected_from_balances |-> TRUE]

\* MatchesSender without the consumed-pair test
MatchesSenderIgnoringPairs(source_change, change, source_owner, owner, mint, processed_pairs) ==
    /\ source_change < 0
    /\ Abs(source_change) >= change

\* the test of line 631-632
MatchesSender(source_change, change, source_owner, owner, mint, processed_pairs) ==
    /\ source_change < 0
    /\ Abs(source_change) >= change
    /\ <<source_owner, owner, mint>> \notin processed_pairs

\* "for s_idx, s_pre_amount in source_mints[mint].items()": the first
\* matching account emits a transfer and breaks out of this loop only
RECURSIVE SourceAccountLoop(_, _, _, _, _, _, _)
SourceAccountLoop(pre, post, r, change, source_owner, k, bst) ==
    LET idxs == MapAccounts(pre, source_owner, r.mint)
    IN  IF k > Len(idxs) THEN bst
        ELSE LET s_pre_amount == MapGet(pre, source_owner, r.mint, idxs[k])
                 s_post_amount == MapGet(post, source_owner, r.mint, idxs[k])
                 source_change == s_post_amount - s_pre_amount
             IN  IF MatchesSender(source_change, change, source_owner, r.owner,
                                  r.mint, bst.processed_pairs)
                 THEN [transfers |-> Append(bst.transfers,
                            BalanceTransfer(source_owner, r.owner, r.mint, change)),
                       processed_pairs |-> bst.processed_pairs
                            \cup {<<source_owner, r.owner, r.mint>>}]
                 ELSE SourceAccountLoop(pre, post, r, change, source_owner, k + 1, bst)

\* "for source_owner, source_mints in pre_map.items()"
RECURSIVE SourceOwnerLoop(_, _, _, _, _, _)
SourceOwnerLoop(pre, post, r, change, j, bst) ==
    LET owners == MapOwners(pre)
    IN  IF j > Len(owners) THEN bst
        ELSE SourceOwnerLoop(pre, post, r, change, j + 1,
                IF owners[j] = r.owner THEN bst
                ELSE IF \E m \in 1..Len(MapMints(pre, owners[j])) :
                            MapMints(pre, owners[j])[m] = r.mint
                     THEN SourceAccountLoop(pre, post, r, change, owners[j], 1, bst)
                ELSE bst)

\* the body of the three post_map loops for one receiving account
ReceiverAccount(pre, post, r, bst) ==
    LET post_amount == MapGet(post, r.owner, r.mint, r.acc_idx)
        pre_amount == MapGet(pre, r.owner, r.mint, r.acc_idx)
        change == post_amount - pre_amount
    IN  IF change > 0 THEN SourceOwnerLoop(pre, post, r, change, 1, bst) ELSE bst

RECURSIVE ReceiverLoop(_, _, _, _, _)
ReceiverLoop(pre, post, rs, i, bst) ==
    IF i > Len(rs) THEN bst
    ELSE ReceiverLoop(pre, post, rs, i + 1, ReceiverAccount(pre, post, rs[i], bst))

\* the transfers the stage appends, in order
BalanceChangeTransfers(pre, post) ==
    ReceiverLoop(pre, post, PostAccounts(post), 1,
                 [transfers |-> <<>>, processed_pairs |-> {}]).transfers

_extract_transfers_from_balance_changes(tx, st) ==
    IF BalancesRaise(tx.preTokenBalances) \/ BalancesRaise(tx.postTokenBalances)
    THEN Raise(st)
    ELSE [st EXCEPT !.transfers =
            @ \o BalanceChangeTransfers(tx.preTokenBalances, tx.postTokenBalances)]

\* a native transfer for every pair of accounts of which the first loses
\* lamports over the transaction and the second gains some
NativeDeltaTransfers(tx) ==
    LET n == Len(tx.preBalances)
        delta(i) == tx.postBalances[i] - tx.preBalances[i]
    IN  Concat([i \in 1..n |-> Concat([j \in 1..n |->
            IF delta(i) < 0 /\ delta(j) > 0
            THEN <<[type |-> "SOL", mint |-> "SOL", source |-> tx.accountKeys[i],
                    destination |-> tx.accountKeys[j], authority |-> NoneV,
                    amount |-> delta(j), detected_from_balances |-> TRUE]>>
            ELSE <<>>])])

\* an extractor whose balance stage reconciles the native balances too
ExtractReconcilingNative(tx) ==
    LET st1 == OuterInstructionLoop(tx, 0, NewExtraction)
    IN  IF st1.raised THEN st1
        ELSE LET st2 == _extract_transfers_from_balance_changes(tx, st1)
             IN  IF st2.raised THEN st2
                 ELSE [st2 EXCEPT !.transfers = @ \o NativeDeltaTransfers(tx)]

\* NetworkBuilder._extract_transfers: the instruction stage, then the
\* balance stage; an exception leaves the caller without a list
_extract_transfers(tx) ==
    LET st1 == OuterInstructionLoop(tx, 0, NewExtraction)
    IN  IF st1.raised THEN st1
        ELSE _extract_transfers_from_balance_changes(tx, st1)

----------------------------------------------------------------------------
(* The transactions the extractor is run on *)

AccountKeys == <<TOKEN_PROGRAM, SYSTEM_PROGRAM, "DexProgram">>

Ix(pidx, type, mint, source, destination, amount, tokenAmount, lamports) ==
    [programIdIndex |-> pidx, type |-> type, mint |-> mint, source |-> source,
     destination |-> destination, authority |-> source, amount |-> amount,
     tokenAmount |-> tokenAmount, lamports |-> lamports]

\* parsed instructions as the RPC gives them
TokenTransferIx(source, destination, amount) ==
    Ix(Some(0), "transfer", NoneV, source, destination, amount, Absent, Absent)
TokenTransferCheckedIx(source, destination, tokenAmount) ==
    Ix(Some(0), "transferChecked", "M1", source, destination, Absent, tokenAmount, Absent)
SystemTransferIx(type, source, destination, lamports) ==
    Ix(Some(1), type, NoneV, source, destination, Absent, Absent, lamports)

WellFormedInstructions ==
    { TokenTransferIx("A", "B", Some(Dec(2))),
      TokenTransferCheckedIx("B", "C", Some(Dec(13))),
      Ix(Some(0), "approve", NoneV, "A", "B", Some(Dec(2)), Absent, Absent),
      SystemTransferIx("transfer", "A", "B", Some(5)),
      SystemTransferIx("transferWithSeed", "B", "A", Some(1)),
      SystemTransferIx("allocate", "A", NoneV, Absent),
      Ix(Some(2), "transfer", NoneV, "A", "B", Some(Dec(2)), Absent, Absent) }

\* instructions with one field missing or out of its range
MalformedInstructions ==
    { [TokenTransferIx("A", "B", Some(Dec(2))) EXCEPT !.programIdIndex = Absent],
      [SystemTransferIx("transfer", "A", "B", Some(5)) EXCEPT !.programIdIndex = Some(3)],
      TokenTransferIx(NoneV, NoneV, Some(Dec(2))),
      TokenTransferIx("A", NoneV, Some(Dec(2))),
      SystemTransferIx("transfer", NoneV, NoneV, Some(5)),
      SystemTransferIx("transfer", NoneV, "B", Some(5)),
      TokenTransferIx("A", "B", Some(NegDec(1))),
      TokenTransferIx("A", "B", Some(EmptyStr)),
      TokenTransferIx("A", "B", Absent),
      SystemTransferIx("transfer", "A", "B", Absent) }

Instructions == WellFormedInstructions \cup MalformedInstructions

InnerInstructions ==
    { TokenTransferIx("C", "A", Some(Dec(7))),
      SystemTransferIx("transfer", "C", "B", Some(4)),
      [TokenTransferIx("C", "A", Some(Dec(7))) EXCEPT !.programIdIndex = Some(3)] }

\* the lists of inner-instruction groups that hold m instructions in all
RECURSIVE InnerGroupLists(_)
InnerGroupLists(m) ==
    IF m = 0 THEN {<<>>}
    ELSE UNION { { <<[index |-> i, instructions |-> ixs]>> \o rest :
                     i \in 0..(MaxIx - 1), ixs \in [1..j -> InnerInstructions],
                     rest \in InnerGroupLists(m - j) } : j \in 1..m }

Transaction(instructions, inner, pre, post) ==
    [accountKeys |-> AccountKeys, instructions |-> instructions,
     innerInstructions |-> inner, preTokenBalances |-> pre,
     postTokenBalances |-> post, preBalances |-> <<>>, postBalances |-> <<>>,
     signature |-> NoneV, blockTime |-> 0]

\* tx is a transaction of at most MaxIx instructions, top-level and inner
\* together, and no token balances
InstructionTransaction(tx) ==
    \E k \in 0..MaxIx : \E m \in 0..(MaxIx - k) :
        \E ixs \in [1..k -> Instructions] : \E inner \in InnerGroupLists(m) :
            tx = Transaction(ixs, inner, <<>>, <<>>)

Owners == <<"A", "B", "C">>
Mints == <<"M1", "M2">>
Min(a, b) == IF a < b THEN a ELSE b

\* what a token account's balance does over a transaction: <<pre, post>>,
\* each an optional amount (the account has no record on that side)
BalanceChanges ==
    { <<Some(3), Some(0)>>, <<Some(3), Some(2)>>, <<Some(0), Some(1)>>,
      <<Absent, Some(2)>> }

TokenAccounts(n) ==
    [1..n -> [owner : {Owners[o] : o \in 1..Len(Owners)},
              mint : {Mints[m] : m \in 1..Len(Mints)},
              change : BalanceChanges]]

\* token account i is owned by one of the first i owners and holds one of
\* the first i mints (every other layout is one of these renamed)
Canonical(accts) ==
    \A i \in DOMAIN accts :
        /\ \E o \in 1..Min(i, Len(Owners)) : accts[i].owner = Owners[o]
        /\ \E m \in 1..Min(i, Len(Mints)) : accts[i].mint = Mints[m]

\* the pre (side 1) or post (side 2) token-balance list of the accounts, in
\* account-index order
RECURSIVE BalanceList(_, _, _)
BalanceList(accts, side, i) ==
    IF i > Len(accts) THEN <<>>
    ELSE (IF Has(accts[i].change[side])
          THEN <<[owner |-> accts[i].owner, mint |-> accts[i].mint,
                  accountIndex |-> i, amount |-> Dec(accts[i].change[side][1])]>>
          ELSE <<>>) \o BalanceList(accts, side, i + 1)

BalanceTransaction(ixs, accts) ==
    Transaction(ixs, <<>>, BalanceList(accts, 1, 1), BalanceList(accts, 2, 1))

\* tx is a transaction of at most MaxAcct token accounts and no
\* instruction, or of fewer accounts after one decoded token transfer
BalanceOnlyTransaction(tx) ==
    \E n \in 1..MaxAcct : \E accts \in TokenAccounts(n) :
        /\ Canonical(accts)
        /\ \E ixs \in (IF n < MaxAcct
                       THEN {<<>>, <<TokenTransferIx("A", "B", Some(Dec(2)))>>}
                       ELSE {<<>>}) :
              tx = BalanceTransaction(ixs, accts)

\* top-level instructions that each yield a transfer no other instruction
\* yields, and one that is skipped
OrderInstructions ==
    { SystemTransferIx("transfer", "A", "B", Some(1)),
      SystemTransferIx("transfer", "B", "A", Some(2)),
      TokenTransferIx("A", "C", Some(Dec(3))),
      [SystemTransferIx("transfer", "A", "C", Some(6)) EXCEPT !.programIdIndex = Absent] }

\* meta.preBalances and meta.postBalances, one entry per account key: none
\* recorded, or the first account paying 5 lamports to the second and a
\* fee of 1
NativeBalances == { <<<<>>, <<>>>>, <<<<9, 0, 0>>, <<3, 5, 0>>>> }

\* tx is a transaction of at most MaxOrderIx instructions, top-level and
\* inner together, with or without a token account whose balance falls
\* and one of another owner whose balance rises, and with or without
\* native balances that change
OrderedTransaction(tx) ==
    \E k \in 1..MaxOrderIx : \E m \in 0..(MaxOrderIx - k) :
        \E ixs \in [1..k -> OrderInstructions] : \E inner \in InnerGroupLists(m) :
            \E accts \in {<<>>, <<[owner |-> "C", mint |-> "M1",
                                   change |-> <<Some(3), Some(2)>>],
                                  [owner |-> "A", mint |-> "M1",
                                   change |-> <<Some(0), Some(1)>>]>>} :
              \E native \in NativeBalances :
                tx = [Transaction(ixs, inner, BalanceList(accts, 1, 1),
                                  BalanceList(accts, 2, 1))
                        EXCEPT !.preBalances = native[1],
                               !.postBalances = native[2]]

----------------------------------------------------------------------------
(* One call of _extract_transfers *)

\* the variables of a component that is not running
IdleExtract ==
    /\ tx_detail = NoneV
    /\ transfers = <<>>
    /\ raised = FALSE
    /\ xpc = "idle"

IdleGraph ==
    /\ G = [nodes |-> {}, edges |-> <<>>]
    /\ arrived = <<>>
    /\ fetched = 0
    /\ gpc = "idle"

IdleExpand ==
    /\ FG = [nodes |-> <<>>, edges |-> <<>>]
    /\ queue = <<>>
    /\ processed_addresses = {}
    /\ depth = 0
    /\ current = <<>>
    /\ pending = <<>>
    /\ epc = "idle"
    /\ reached = <<>>
    /\ enqueued = {}
    /\ expanded = {}
    /\ served = 0
    /\ listed = {}
    /\ asked = {}
    /\ failed = [history |-> <<>>, transaction |-> <<>>]

NoSimilarity ==
    [raised |-> FALSE, score |-> [num |-> 0, den |-> 1], type |-> "none",
     common_prefix_length |-> 0, common_suffix_length |-> 0]

IdleSimilarity ==
    /\ address = <<>>
    /\ known_address = <<>>
    /\ similarity = NoSimilarity
    /\ swapped = NoSimilarity
    /\ spc = "idle"

\* line 325-332 of address_analyzer.py; the confidence in tenths
NewLayeringResults ==
    [layering_detected |-> FALSE, confidence |-> 0, patterns |-> <<>>, error |-> FALSE]

IdleLayering ==
    /\ layer_address = NoneV
    /\ layer_history = <<>>
    /\ layer_results = NewLayeringResults
    /\ lpc = "idle"

\* "return None" of _analyze_tx_with_balance_changes
NoAttack ==
    [found |-> FALSE, attacker_address |-> NoneV, victim_address |-> NoneV,
     profit_amount |-> 0]

IdleSandwich ==
    /\ sandwich_tx = NoneV
    /\ attack = NoAttack
    /\ wpc = "idle"

\* line 204-210 of address_analyzer.py; error is whether results["error"]
\* is set
NewRouteResults ==
    [routes |-> <<>>, risk_score |-> 0, patterns_detected |-> {}, error |-> FALSE]

IdleRoutes ==
    /\ route_address = NoneV
    /\ route_clients = [helius |-> FALSE, range |-> FALSE]
    /\ route_history = <<>>
    /\ route_results = NewRouteResults
    /\ rtpc = "idle"

IdleCorrelate ==
    /\ corr_split_events = <<>>
    /\ corr_aggregation_events = <<>>
    /\ correlation = NewLayeringResults
    /\ cpc = "idle"

IdleProfit ==
    /\ profit_balances = [pre |-> <<>>, post |-> <<>>]
    /\ profit_result = [profit_amount |-> 0, profit_token_mint |-> NoneV]
    /\ fpc = "idle"

IdleVerdict ==
    /\ token_metadata_cache = <<>>
    /\ has_metadata_async = FALSE
    /\ verdict_calls = <<>>
    /\ tpc = "idle"

IdlePaginate ==
    /\ limit_total = 0
    /\ signature_count = 0
    /\ pages = 0
    /\ detail_index = 0
    /\ transaction_details = 0
    /\ ppc = "idle"

InitExtract ==
    /\ \/ InstructionTransaction(tx_detail)
       \/ BalanceOnlyTransaction(tx_detail)
       \/ OrderedTransaction(tx_detail)
    /\ transfers = <<>>
    /\ raised = FALSE
    /\ xpc = "call"
    /\ IdleGraph
    /\ IdleExpand
    /\ IdleSimilarity
    /\ IdleLayering
    /\ IdleSandwich
    /\ IdleRoutes
    /\ IdlePaginate
    /\ IdleCorrelate
    /\ IdleProfit
    /\ IdleVerdict

ExtractCall ==
    /\ xpc = "call"
    /\ LET st == _extract_transfers(tx_detail)
       IN  /\ raised' = st.raised
           /\ transfers' = IF st.raised THEN <<>> ELSE st.transfers
    /\ xpc' = "returned"
    /\ UNCHANGED <<tx_detail, graphVars, expandVars, similarityVars, layeringVars,
                   sandwichVars, routesVars, paginateVars, correlateVars, profitVars,
                   verdictVars>>

NextExtract == ExtractCall

SpecExtract == InitExtract /\ [][NextExtract]_vars

----------------------------------------------------------------------------
(* Properties of one extraction *)

Returned == xpc = "returned" /\ ~raised

\* an endpoint that is missing, empty or the "unknown" marker
Unresolved(a) == ~Truthy(a) \/ a = "unknown"

\* C2: every transfer the extractor emits has amount >= 0.
C2_AmountNonNegative ==
    Returned => \A i \in 1..Len(transfers) : transfers[i].amount >= 0

\* C3: the extractor never emits a transfer whose source and destination
\* are both unresolved.
C3_NoDoublyUnresolvedTransfer ==
    Returned => \A i \in 1..Len(transfers) :
        ~(Unresolved(transfers[i].source) /\ Unresolved(transfers[i].destination))

Triple(t) == <<t.source, t.destination, t.mint>>

\* C4: the balance-reconciliation stage never emits two transfers with the
\* same (source owner, destination owner, mint) triple in one transaction.
C4_ConsumedPair ==
    Returned => \A i, j \in 1..Len(transfers) :
        (/\ i < j
         /\ transfers[i].detected_from_balances
         /\ transfers[j].detected_from_balances)
        => Triple(transfers[i]) # Triple(transfers[j])

\* the rise of a post-balance record over the same account's pre-balance
RiseOf(tx, b) ==
    IntOf(b.amount) - MapGet(tx.preTokenBalances, b.owner, b.mint, b.accountIndex)

\* the fall of a pre-balance record to the same account's post-balance
FallOf(tx, b) ==
    IntOf(b.amount) - MapGet(tx.postTokenBalances, b.owner, b.mint, b.accountIndex)

\* an owner received on two token accounts of one mint, another owner's
\* account of that mint fell by at least either rise, and the stage emitted
\* that pair's transfer
C4_Witness ==
    /\ Returned
    /\ \E i, j \in 1..Len(tx_detail.postTokenBalances) :
       \E k \in 1..Len(tx_detail.preTokenBalances) :
          LET r1 == tx_detail.postTokenBalances[i]
              r2 == tx_detail.postTokenBalances[j]
              s == tx_detail.preTokenBalances[k]
          IN  /\ i < j
              /\ r1.owner = r2.owner /\ r1.mint = r2.mint
              /\ s.owner # r1.owner /\ s.mint = r1.mint
              /\ RiseOf(tx_detail, r1) > 0 /\ RiseOf(tx_detail, r2) > 0
              /\ FallOf(tx_detail, s) >= RiseOf(tx_detail, r1)
              /\ FallOf(tx_detail, s) >= RiseOf(tx_detail, r2)
              /\ \E t \in 1..Len(transfers) :
                    /\ transfers[t].detected_from_balances
                    /\ Triple(transfers[t]) = <<s.owner, r1.owner, r1.mint>>

----------------------------------------------------------------------------
(* NetworkBuilder.build_transaction_graph *)

EmptyGraph == [nodes |-> {}, edges |-> <<>>]

has_edge(g, u, v) == <<u, v>> \in DOMAIN g.edges

\* line 72-77
EdgeAttrs(transfer, tx_hash, block_time) ==
    [tx_hash |-> tx_hash, amount |-> transfer.amount, mint |-> transfer.mint,
     block_time |-> block_time]

\* line 87-90: G.add_edge(sender, receiver, transactions=[edge_attrs], ...)
NewEdge(edge_attrs) ==
    [transactions |-> <<edge_attrs>>, weight |-> 1, total_amount |-> edge_attrs.amount]

\* an edge that drops the records it held
ReplacedEdge(edge_data, edge_attrs) ==
    [transactions |-> <<edge_attrs>>, weight |-> 1, total_amount |-> edge_attrs.amount]

\* line 81-85: the existing edge takes one more record
AppendedEdge(edge_data, edge_attrs) ==
    [transactions |-> Append(edge_data.transactions, edge_attrs),
     weight |-> Len(edge_data.transactions) + 1,
     total_amount |-> edge_data.total_amount + edge_attrs.amount]

\* a test that looks at the sender alone
SenderResolved(sender, receiver) ==
    Truthy(sender) /\ sender # "unknown"

\* line 66: both endpoints present and not the "unknown" marker
BothResolved(sender, receiver) ==
    /\ Truthy(sender) /\ Truthy(receiver)
    /\ sender # "unknown" /\ receiver # "unknown"

\* the body of "for transfer in transfers" (line 60-90)
AddTransfer(g, transfer, tx_hash, block_time) ==
    LET sender == transfer.source
        receiver == transfer.destination
        edge_attrs == EdgeAttrs(transfer, tx_hash, block_time)
    IN  IF BothResolved(sender, receiver)
        THEN [nodes |-> g.nodes \cup {sender, receiver},
              edges |-> IF has_edge(g, sender, receiver)
                        THEN [g.edges EXCEPT ![<<sender, receiver>>] =
                                    AppendedEdge(@, edge_attrs)]
                        ELSE [p \in DOMAIN g.edges \cup {<<sender, receiver>>} |->
                                    IF p = <<sender, receiver>> THEN NewEdge(edge_attrs)
                                    ELSE g.edges[p]]]
        ELSE g

RECURSIVE AddTransfers(_, _, _, _, _)
AddTransfers(g, ts, i, tx_hash, block_time) ==
    IF i > Len(ts) THEN g
    ELSE AddTransfers(AddTransfer(g, ts[i], tx_hash, block_time), ts, i + 1,
                      tx_hash, block_time)

\* what the properties below remember of a transfer the loop took up
Arrival(transfer, tx_hash, block_time) ==
    [source |-> transfer.source, destination |-> transfer.destination,
     attrs |-> [tx_hash |-> tx_hash, amount |-> transfer.amount,
                mint |-> transfer.mint, block_time |-> block_time]]

\* the transactions of a batch: at most one instruction each, or token
\* balances alone in which "B" pays "A" (the n-th carries signature n)
BatchTransactions ==
    {Transaction(<<>>, <<>>, <<>>, <<>>)}
    \cup {Transaction(<<ix>>, <<>>, <<>>, <<>>) : ix \in Instructions}
    \cup {BalanceTransaction(<<>>,
              <<[owner |-> "A", mint |-> "M1", change |-> c],
                [owner |-> "B", mint |-> "M1", change |-> <<Some(3), Some(0)>>]>>)
          : c \in BalanceChanges}

BlockTimeOf(n) == 1700000000 + 60 * n

InitGraph ==
    /\ G = EmptyGraph
    /\ arrived = <<>>
    /\ fetched = 0
    /\ gpc = "building"
    /\ IdleExtract
    /\ IdleExpand
    /\ IdleSimilarity
    /\ IdleLayering
    /\ IdleSandwich
    /\ IdleRoutes
    /\ IdlePaginate
    /\ IdleCorrelate
    /\ IdleProfit
    /\ IdleVerdict

\* one round of "for tx_detail in transactions" (line 50-90); an exception
\* of _extract_transfers is caught nowhere and ends the call
BuildTransaction ==
    /\ gpc = "building"
    /\ fetched < MaxBatch
    /\ \E tx \in BatchTransactions :
          LET st == _extract_transfers(tx)
              tx_hash == fetched + 1
              block_time == BlockTimeOf(fetched + 1)
          IN  IF st.raised
              THEN /\ gpc' = "raised"
                   /\ UNCHANGED <<G, arrived>>
              ELSE /\ G' = AddTransfers(G, st.transfers, 1, tx_hash, block_time)
                   /\ arrived' = arrived \o
                        [i \in 1..Len(st.transfers) |->
                            Arrival(st.transfers[i], tx_hash, block_time)]
                   /\ gpc' = "building"
    /\ fetched' = fetched + 1
    /\ UNCHANGED <<extractVars, expandVars, similarityVars, layeringVars, sandwichVars, routesVars,
                   paginateVars, correlateVars, profitVars, verdictVars>>

\* the loop ends and the graph is returned (line 92-93)
BuildReturn ==
    /\ gpc = "building"
    /\ gpc' = "returned"
    /\ UNCHANGED <<G, arrived, fetched, extractVars, expandVars, similarityVars,
                   layeringVars, sandwichVars, routesVars, paginateVars, correlateVars,
                   profitVars, verdictVars>>

NextGraph == BuildTransaction \/ BuildReturn

SpecGraph == InitGraph /\ [][NextGraph]_vars

----------------------------------------------------------------------------
(* Properties of the graph builder *)

\* the transfers taken up so far from sender to receiver, in arrival order
ArrivedBetween(sender, receiver) ==
    SelectSeq(arrived, LAMBDA a : a.source = sender /\ a.destination = receiver)

ArrivedPairs == {<<arrived[i].source, arrived[i].destination>> : i \in 1..Len(arrived)}

\* C5: for every ordered pair with both endpoints resolved, the edge's
\* weight is the number of transfers taken up between the pair and its
\* transaction list holds exactly their records, in arrival order.
C5_EdgeCount ==
    gpc \in {"building", "returned"} =>
        \A p \in ArrivedPairs \cup DOMAIN G.edges :
            LET between == ArrivedBetween(p[1], p[2])
            IN  IF BothResolved(p[1], p[2]) /\ Len(between) > 0
                THEN /\ has_edge(G, p[1], p[2])
                     /\ G.edges[p].weight = Len(between)
                     /\ G.edges[p].transactions =
                            [i \in 1..Len(between) |-> between[i].attrs]
                ELSE ~has_edge(G, p[1], p[2])

\* an edge built from transfers of two different transactions
C5_Witness ==
    /\ gpc = "returned"
    /\ \E p \in DOMAIN G.edges :
          /\ G.edges[p].weight >= 2
          /\ G.edges[p].transactions[1].tx_hash # G.edges[p].transactions[2].tx_hash

RECURSIVE SumAmounts(_)
SumAmounts(records) ==
    IF Len(records) = 0 THEN 0 ELSE records[1].amount + SumAmounts(Tail(records))

\* what the edge holds as its total for a mint: one number, whatever the mint
EdgeTotalFor(edge_data, mint) == edge_data.total_amount

\* C6: for every edge and every mint, the edge's total_amount for the mint
\* is the sum of the amounts of the edge's transfers of that mint.
C6_PerMintTotals ==
    gpc \in {"building", "returned"} =>
        \A p \in DOMAIN G.edges :
            \A i \in 1..Len(G.edges[p].transactions) :
                LET mint == G.edges[p].transactions[i].mint
                IN  EdgeTotalFor(G.edges[p], mint) =
                        SumAmounts(SelectSeq(G.edges[p].transactions,
                                             LAMBDA r : r.mint = mint))

\* C15: when extracting the transfers of one transaction of a batch raises,
\* that transaction alone is skipped: the call does not end with the
\* exception, and the edges of the other transactions are returned.
C15_BatchSurvives == gpc # "raised"

----------------------------------------------------------------------------
(* NetworkBuilder.build_transaction_flow_network *)

\* The state the loop body works on: the graph, the queue and the set of
\* addresses already enqueued.
has_node(g, n) == n \in DOMAIN g.nodes

SetDepth(nodes, n, d) ==
    [m \in DOMAIN nodes \cup {n} |-> IF m = n THEN d ELSE nodes[m]]

\* line 178-181: add the popped address if it is no node yet, then lower
\* its depth attribute to the depth it was popped at
AddCurrentNode(es, current_address, current_depth) ==
    LET g1 == IF has_node(es.g, current_address) THEN es.g
              ELSE [es.g EXCEPT !.nodes = SetDepth(@, current_address, current_depth)]
    IN  [es EXCEPT !.g = [g1 EXCEPT !.nodes =
            SetDepth(@, current_address, Min(g1.nodes[current_address], current_depth))]]

\* a neighbor's node written whether or not the node exists
OverwriteNeighborNode(g, neighbor, current_depth) ==
    [g EXCEPT !.nodes = SetDepth(@, neighbor, current_depth + 1)]

\* line 218-219: the neighbor becomes a node, one level below the current
\* address, only if it is no node yet
AddNeighborNode(g, neighbor, current_depth) ==
    IF has_node(g, neighbor) THEN g
    ELSE [g EXCEPT !.nodes = SetDepth(@, neighbor, current_depth + 1)]

\* line 222-227: G.add_edge(sender, receiver, **edge_data) sets the edge's
\* attributes, over those of an earlier transfer of the pair
AddFlowEdge(g, sender, receiver, edge_data) ==
    [g EXCEPT !.edges = [p \in DOMAIN g.edges \cup {<<sender, receiver>>} |->
                            IF p = <<sender, receiver>> THEN edge_data ELSE g.edges[p]]]

\* an enqueue test that lets a neighbor in at the depth limit itself
MayEnqueueAtLimit(neighbor, processed, current_depth, max_depth) ==
    neighbor \notin processed /\ current_depth + 1 <= max_depth

\* an enqueue test that forgets which addresses were seen
MayEnqueueSeen(neighbor, processed, current_depth, max_depth) ==
    current_depth + 1 < max_depth

\* line 230
MayEnqueue(neighbor, processed, current_depth, max_depth) ==
    neighbor \notin processed /\ current_depth + 1 < max_depth

\* line 208-215: the other endpoint of a transfer the current address takes
\* part in, with its direction; <<>> when the transfer is passed over
NeighborOf(transfer, current_address) ==
    LET sender == transfer.source
        receiver == transfer.destination
    IN  IF sender = current_address /\ Truthy(receiver) /\ receiver # "unknown"
        THEN <<receiver, "out">>
        ELSE IF receiver = current_address /\ Truthy(sender) /\ sender # "unknown"
        THEN <<sender, "in">>
        ELSE <<>>

\* the body of "for transfer in transfers" (line 202-232)
FlowTransfer(es, transfer, current_address, current_depth, sig, block_time, max_depth) ==
    LET nb == NeighborOf(transfer, current_address)
    IN  IF nb = <<>> THEN es
        ELSE LET neighbor == nb[1]
                 edge_data == [tx_hash |-> sig, amount |-> transfer.amount,
                               mint |-> transfer.mint, block_time |-> block_time,
                               direction |-> nb[2]]
                 g1 == AddNeighborNode(es.g, neighbor, current_depth)
                 g2 == AddFlowEdge(g1, transfer.source, transfer.destination, edge_data)
             IN  IF MayEnqueue(neighbor, es.processed_addresses, current_depth, max_depth)
                 THEN [g |-> g2,
                       queue |-> Append(es.queue, <<neighbor, current_depth + 1>>),
                       processed_addresses |-> es.processed_addresses \cup {neighbor}]
                 ELSE [es EXCEPT !.g = g2]

RECURSIVE FlowTransferLoop(_, _, _, _, _, _, _, _)
FlowTransferLoop(es, ts, i, current_address, current_depth, sig, block_time, max_depth) ==
    IF i > Len(ts) THEN es
    ELSE FlowTransferLoop(
            FlowTransfer(es, ts[i], current_address, current_depth, sig, block_time, max_depth),
            ts, i + 1, current_address, current_depth, sig, block_time, max_depth)

\* one round of "for sig in recent_signatures" (line 193-236) for one
\* answer of get_transaction: when it raises, when its result is empty and
\* when _extract_transfers raises, the state stays as it is and the loop
\* goes on with the next signature
FlowSignature(es, sig, answer, current_address, current_depth, max_depth) ==
    IF answer.fetch # "ok" THEN es
    ELSE LET st == _extract_transfers(answer.tx_detail)
         IN  IF st.raised THEN es
             ELSE FlowTransferLoop(es, st.transfers, 1, current_address, current_depth,
                                   sig.signature, answer.tx_detail.blockTime, max_depth)

\* line 188: the signatures newer than the cutoff
CutoffTime == 1700000000

Recent(signatures) == SelectSeq(signatures, LAMBDA s : s.blockTime > CutoffTime)

\* line 174
PastDepth(current_depth, max_depth) == current_depth >= max_depth

----------------------------------------------------------------------------
(* What the provider answers *)

Addresses == {"S", "A", "B"}
StartAddress == "S"

FlowEndpoints == Addresses \cup {NoneV, "unknown"}

\* the transactions of a history: one System transfer between any two
\* endpoints, resolved or not, two transfers out of the seed, or a token
\* transfer whose amount is no number
FlowTransactions ==
    {Transaction(<<SystemTransferIx("transfer", x, y, Some(5))>>, <<>>, <<>>, <<>>) :
        x \in FlowEndpoints, y \in FlowEndpoints}
    \cup {Transaction(<<SystemTransferIx("transfer", StartAddress, "A", Some(5)),
                        SystemTransferIx("transfer", StartAddress, "B", Some(7))>>,
                      <<>>, <<>>, <<>>)}
    \cup {Transaction(<<TokenTransferIx("A", "B", Some(EmptyStr))>>, <<>>, <<>>, <<>>)}

\* what get_signatures_for_address(a) may return: raising, or up to most
\* signatures, the i-th <<a, i>>, each at the cutoff or after it
SignatureLists(a, most) ==
    UNION { {[i \in 1..n |-> [signature |-> <<a, i>>,
                              blockTime |-> IF recent[i] THEN CutoffTime + 60 * i
                                            ELSE CutoffTime]]
             : recent \in [1..n -> BOOLEAN]} : n \in 0..most }

HistoryResponses(a, most) ==
    {[fails |-> TRUE, result |-> <<>>]}
    \cup {[fails |-> FALSE, result |-> sigs] : sigs \in SignatureLists(a, most)}

\* what get_transaction(sig) may do: raise, return no result, or return a
\* transaction with the signature's block time
TransactionAnswers(sig) ==
    {[fetch |-> f, tx_detail |-> Transaction(<<>>, <<>>, <<>>, <<>>)] : f \in {"raises", "empty"}}
    \cup {[fetch |-> "ok", tx_detail |-> [t EXCEPT !.blockTime = sig.blockTime]]
          : t \in FlowTransactions}

----------------------------------------------------------------------------
(* One call of build_transaction_flow_network *)

InitExpand ==
    /\ depth \in 0..MaxDepth
    /\ FG = [nodes |-> <<>>, edges |-> <<>>]
    /\ queue = <<<<StartAddress, 0>>>>
    /\ processed_addresses = {StartAddress}
    /\ current = <<>>
    /\ pending = <<>>
    /\ epc = "loop"
    /\ reached = <<>>
    /\ enqueued = {}
    /\ expanded = {}
    /\ served = 0
    /\ listed = {}
    /\ asked = {}
    /\ failed = [history |-> <<>>, transaction |-> <<>>]
    /\ IdleExtract
    /\ IdleGraph
    /\ IdleSimilarity
    /\ IdleLayering
    /\ IdleSandwich
    /\ IdleRoutes
    /\ IdlePaginate
    /\ IdleCorrelate
    /\ IdleProfit
    /\ IdleVerdict

\* the least depth an address has been reached at, after it is reached at d
ReachAt(r, a, d) ==
    [m \in DOMAIN r \cup {a} |->
        IF m = a THEN (IF a \in DOMAIN r THEN Min(r[a], d) ELSE d) ELSE r[m]]

\* the neighbors the transfers of an answer reach from the current address
NeighborsReached(answer, current_address) ==
    IF answer.fetch # "ok" THEN {}
    ELSE LET st == _extract_transfers(answer.tx_detail)
         IN  IF st.raised THEN {}
             ELSE {NeighborOf(st.transfers[k], current_address)[1] :
                     k \in {j \in 1..Len(st.transfers) :
                              NeighborOf(st.transfers[j], current_address) # <<>>}}

RECURSIVE ReachAll(_, _, _)
ReachAll(r, as, d) ==
    IF as = {} THEN r
    ELSE LET a == CHOOSE x \in as : TRUE
         IN  ReachAll(ReachAt(r, a, d), as \ {a}, d)

AtLoopTop == epc = "loop" /\ pending = <<>>

\* the nodes and the edges of a graph
Snapshot(g) == [nodes |-> DOMAIN g.nodes, edges |-> DOMAIN g.edges]

\* a failing get_transaction ends the round of the address
AbandonedSignatures(signatures, answer) ==
    IF answer.fetch = "raises" THEN <<>> ELSE Tail(signatures)

\* line 193, 235-236: the handler of a signature is inside the loop over
\* the signatures, which goes on with the next one
RemainingSignatures(signatures, answer) == Tail(signatures)

\* an address is popped at or past the depth limit and passed over
\* (line 172-175)
PopPastDepth ==
    /\ AtLoopTop
    /\ queue # <<>>
    /\ PastDepth(queue[1][2], depth)
    /\ queue' = Tail(queue)
    /\ current' = queue[1]
    /\ UNCHANGED <<FG, processed_addresses, depth, pending, epc, reached, enqueued,
                   expanded, served, listed, asked, failed>>
    /\ UNCHANGED <<extractVars, graphVars, similarityVars, layeringVars, sandwichVars, routesVars,
                   paginateVars, correlateVars, profitVars, verdictVars>>

\* an address is popped, made a node, and its signatures are asked for
\* (line 172-190); when the provider raises or nothing is recent the round
\* is over
PopAndFetch ==
    /\ AtLoopTop
    /\ queue # <<>>
    /\ ~PastDepth(queue[1][2], depth)
    /\ LET current_address == queue[1][1]
           current_depth == queue[1][2]
           es == AddCurrentNode([g |-> FG, queue |-> Tail(queue),
                                 processed_addresses |-> processed_addresses],
                                current_address, current_depth)
       IN  /\ FG' = es.g
           /\ queue' = es.queue
           /\ current' = queue[1]
           /\ expanded' = expanded \cup {queue[1]}
           /\ reached' = ReachAt(reached, current_address, current_depth)
           /\ \E response \in HistoryResponses(current_address, MaxSignatures - served) :
                 /\ pending' = IF response.fails THEN <<>> ELSE Recent(response.result)
                 /\ served' = served + Len(response.result)
                 /\ listed' = listed \cup
                        {Recent(response.result)[i].signature :
                            i \in 1..Len(Recent(response.result))}
                 /\ failed' = IF response.fails
                              THEN [failed EXCEPT !.history = <<Snapshot(es.g)>>]
                              ELSE failed
    /\ UNCHANGED <<processed_addresses, depth, epc, enqueued, asked>>
    /\ UNCHANGED <<extractVars, graphVars, similarityVars, layeringVars, sandwichVars, routesVars,
                   paginateVars, correlateVars, profitVars, verdictVars>>

\* the next recent signature is taken up (line 193-236)
ProcessSignature ==
    /\ epc = "loop"
    /\ pending # <<>>
    /\ \E answer \in TransactionAnswers(pending[1]) :
          LET es == FlowSignature([g |-> FG, queue |-> queue,
                                   processed_addresses |-> processed_addresses],
                                  pending[1], answer, current[1], current[2], depth)
          IN  /\ FG' = es.g
              /\ queue' = es.queue
              /\ processed_addresses' = es.processed_addresses
              /\ enqueued' = enqueued \cup
                    {es.queue[i] : i \in (Len(queue) + 1)..Len(es.queue)}
              /\ reached' = ReachAll(reached, NeighborsReached(answer, current[1]),
                                     current[2] + 1)
              /\ pending' = RemainingSignatures(pending, answer)
              /\ failed' = IF answer.fetch = "raises"
                           THEN [failed EXCEPT !.transaction = <<Snapshot(FG)>>]
                           ELSE failed
    /\ asked' = asked \cup {pending[1].signature}
    /\ UNCHANGED <<depth, current, epc, expanded, served, listed>>
    /\ UNCHANGED <<extractVars, graphVars, similarityVars, layeringVars, sandwichVars, routesVars,
                   paginateVars, correlateVars, profitVars, verdictVars>>

\* the queue is empty: the graph is returned (line 241-242)
ExpandReturn ==
    /\ AtLoopTop
    /\ queue = <<>>
    /\ epc' = "returned"
    /\ UNCHANGED <<FG, queue, processed_addresses, depth, current, pending,
                   reached, enqueued, expanded, served, listed, asked, failed>>
    /\ UNCHANGED <<extractVars, graphVars, similarityVars, layeringVars, sandwichVars, routesVars,
                   paginateVars, correlateVars, profitVars, verdictVars>>

NextExpand == PopPastDepth \/ PopAndFetch \/ ProcessSignature \/ ExpandReturn

SpecExpand == InitExpand /\ [][NextExpand]_vars

----------------------------------------------------------------------------
(* Properties of the expansion *)

\* C7: whatever max_depth is and whatever the provider answers, a neighbor
\* is enqueued only at a depth strictly less than max_depth, and no address
\* popped at depth >= max_depth has its history fetched.
C7_DepthBound ==
    /\ \A e \in enqueued : e[2] < depth
    /\ \A i \in 1..Len(queue) : queue[i] = <<StartAddress, 0>> \/ queue[i][2] < depth
    /\ \A e \in expanded : e[2] < depth

\* max_depth = 2, a neighbor was enqueued at depth 1, expanded, and a
\* neighbor of it became a node at depth 2 without being enqueued
C7_Witness ==
    /\ epc = "returned"
    /\ depth = 2
    /\ \E e \in enqueued : e[2] = 1 /\ e \in expanded
    /\ \E n \in DOMAIN FG.nodes : FG.nodes[n] = 2 /\ \A e \in enqueued : e[1] # n

\* C8: in every state of an expansion the nodes are the addresses reached
\* so far, and each node's depth attribute is the least depth it has been
\* reached at: 0 for the seed, the depth of the expanded address + 1 for a
\* neighbor.
C8_MinimumDepth ==
    /\ DOMAIN FG.nodes = DOMAIN reached
    /\ \A n \in DOMAIN FG.nodes : FG.nodes[n] = reached[n]

\* a node of depth 1 is reached again from another address expanded at
\* depth 1: the edge between them was written while that address was expanded
C8_Witness ==
    \E n \in DOMAIN FG.nodes : \E e \in expanded :
        /\ FG.nodes[n] = 1
        /\ e[2] = 1
        /\ e[1] # n
        /\ \E p \in DOMAIN FG.edges :
              /\ p \in {<<e[1], n>>, <<n, e[1]>>}
              /\ FG.edges[p].tx_hash[1] = e[1]

----------------------------------------------------------------------------
(* AddressAnalyzer._calculate_address_similarity *)

\* A Python str is the sequence of its characters; s[i] of the code is
\* s[i + 1] here and s[-(i+1)] is s[Len(s) - i].  The score, a float in the
\* code, is held as the exact fraction num/den of the same arithmetic.

\* line 652-658
RECURSIVE PrefixLoop(_, _, _, _)
PrefixLoop(address1, address2, i, common_prefix_length) ==
    IF i >= Min(Len(address1), Len(address2)) THEN common_prefix_length
    ELSE IF address1[i + 1] = address2[i + 1]
         THEN PrefixLoop(address1, address2, i + 1, common_prefix_length + 1)
         ELSE common_prefix_length

\* line 660-666
RECURSIVE SuffixLoop(_, _, _, _)
SuffixLoop(address1, address2, i, common_suffix_length) ==
    IF i >= Min(Len(address1), Len(address2)) THEN common_suffix_length
    ELSE IF address1[Len(address1) - i] = address2[Len(address2) - i]
         THEN SuffixLoop(address1, address2, i + 1, common_suffix_length + 1)
         ELSE common_suffix_length

\* line 669-670, in tenths
prefix_weight == 8
suffix_weight == 2

\* a divisor taken from the first address alone
NormalizerOfFirst(most, address1, address2) == Min(most, Len(address1))

\* line 673-674: the divisor min(8, min(len, len)) or min(4, min(len, len))
Normalizer(most, address1, address2) ==
    Min(most, Min(Len(address1), Len(address2)))

\* line 676: prefix_weight * (p / pn) + suffix_weight * (s / sn)
similarity_score(common_prefix_length, pn, common_suffix_length, sn) ==
    [num |-> prefix_weight * common_prefix_length * sn
             + suffix_weight * common_suffix_length * pn,
     den |-> 10 * pn * sn]

\* a classification that tests the suffix before the prefix
SuffixFirstType(common_prefix_length, common_suffix_length) ==
    IF common_suffix_length >= 4 THEN "suffix"
    ELSE IF common_prefix_length >= 8 THEN "prefix"
    ELSE IF common_prefix_length >= 4 /\ common_suffix_length >= 2 THEN "both"
    ELSE "none"

\* line 679-685
similarity_type(common_prefix_length, common_suffix_length) ==
    IF common_prefix_length >= 8 THEN "prefix"
    ELSE IF common_suffix_length >= 4 THEN "suffix"
    ELSE IF common_prefix_length >= 4 /\ common_suffix_length >= 2 THEN "both"
    ELSE "none"

\* line 641-692; a division by zero (line 673) ends the call with
\* ZeroDivisionError
_calculate_address_similarity(address1, address2) ==
    LET common_prefix_length == PrefixLoop(address1, address2, 0, 0)
        common_suffix_length == SuffixLoop(address1, address2, 0, 0)
        pn == Normalizer(8, address1, address2)
        sn == Normalizer(4, address1, address2)
    IN  IF pn = 0 \/ sn = 0 THEN [NoSimilarity EXCEPT !.raised = TRUE]
        ELSE [raised |-> FALSE,
              score |-> similarity_score(common_prefix_length, pn,
                                         common_suffix_length, sn),
              type |-> similarity_type(common_prefix_length, common_suffix_length),
              common_prefix_length |-> common_prefix_length,
              common_suffix_length |-> common_suffix_length]

----------------------------------------------------------------------------
(* The addresses compared *)

Run(c, n) == [i \in 1..n |-> c]

\* a run of one character, or two runs of it around one other character,
\* of at most MaxLen characters in all
AddressStrings ==
    {Run("a", n) : n \in 0..MaxLen}
    \cup UNION {{Run("a", lead) \o <<c>> \o Run("a", trail) :
                    trail \in 0..(MaxLen - 1 - lead), c \in {"b", "c"}} :
                lead \in 0..(MaxLen - 1)}

InitSimilarity ==
    /\ address \in AddressStrings
    /\ known_address \in AddressStrings
    /\ similarity = NoSimilarity
    /\ swapped = NoSimilarity
    /\ spc = "call"
    /\ IdleExtract
    /\ IdleGraph
    /\ IdleExpand
    /\ IdleLayering
    /\ IdleSandwich
    /\ IdleRoutes
    /\ IdlePaginate
    /\ IdleCorrelate
    /\ IdleProfit
    /\ IdleVerdict

\* the call of line 295
CalculateSimilarity ==
    /\ spc = "call"
    /\ similarity' = _calculate_address_similarity(address, known_address)
    /\ spc' = "returned"
    /\ UNCHANGED <<address, known_address, swapped>>
    /\ UNCHANGED <<extractVars, graphVars, expandVars, layeringVars, sandwichVars, routesVars,
                   paginateVars, correlateVars, profitVars, verdictVars>>

\* the same two addresses, the other way round
CalculateSwapped ==
    /\ spc = "returned"
    /\ swapped' = _calculate_address_similarity(known_address, address)
    /\ spc' = "both"
    /\ UNCHANGED <<address, known_address, similarity>>
    /\ UNCHANGED <<extractVars, graphVars, expandVars, layeringVars, sandwichVars, routesVars,
                   paginateVars, correlateVars, profitVars, verdictVars>>

NextSimilarity == CalculateSimilarity \/ CalculateSwapped

SpecSimilarity == InitSimilarity /\ [][NextSimilarity]_vars

----------------------------------------------------------------------------
(* Properties of the similarity *)

SameScore(x, y) == x.num * y.den = y.num * x.den

\* C9: for all address strings a and b, similarity(a, b) and
\* similarity(b, a) return the same score, kind, prefix_len and suffix_len.
C9_Symmetric ==
    spc = "both" =>
        /\ similarity.raised = swapped.raised
        /\ SameScore(similarity.score, swapped.score)
        /\ similarity.type = swapped.type
        /\ similarity.common_prefix_length = swapped.common_prefix_length
        /\ similarity.common_suffix_length = swapped.common_suffix_length

\* two different addresses of different lengths, the shorter under 8
\* characters, that share a prefix and a suffix, compared both ways round
C9_Witness ==
    /\ spc = "both"
    /\ Len(address) < Len(known_address)
    /\ Len(address) < 8
    /\ ~similarity.raised
    /\ similarity.common_prefix_length > 0
    /\ similarity.common_suffix_length > 0
    /\ similarity.common_prefix_length < Len(address)

\* C10: for all non-empty address strings a and b the score of
\* similarity(a, b) lies in [0, 1].
C10_ScoreInUnitInterval ==
    (spc \in {"returned", "both"} /\ address # <<>> /\ known_address # <<>>) =>
        /\ ~similarity.raised
        /\ 0 <= similarity.score.num
        /\ similarity.score.num <= similarity.score.den

\* the first n characters of a string
Prefix(str, n) == SubSeq(str, 1, n)

\* C11: the kind is "prefix" iff prefix_len >= 8; otherwise "suffix" iff
\* suffix_len >= 4; otherwise "both" iff prefix_len >= 4 and suffix_len >= 2;
\* otherwise "none".  Two 12-character addresses sharing exactly their first
\* 8 characters give prefix_len = 8, kind "prefix" and a score >= 0.8.
C11_Classification ==
    (spc \in {"returned", "both"} /\ ~similarity.raised) =>
        LET p == similarity.common_prefix_length
            x == similarity.common_suffix_length
        IN  /\ (similarity.type = "prefix") <=> (p >= 8)
            /\ (similarity.type = "suffix") <=> (p < 8 /\ x >= 4)
            /\ (similarity.type = "both") <=> (p < 8 /\ x < 4 /\ p >= 4 /\ x >= 2)
            /\ (similarity.type = "none") <=> (p < 8 /\ x < 4 /\ ~(p >= 4 /\ x >= 2))
            /\ (/\ Len(address) = 12
                /\ Len(known_address) = 12
                /\ Prefix(address, 8) = Prefix(known_address, 8)
                /\ address[9] # known_address[9])
               => /\ p = 8
                  /\ similarity.type = "prefix"
                  /\ 10 * similarity.score.num >= 8 * similarity.score.den

\* two 12-character addresses that share exactly their first 8 characters,
\* and their last 3, have been compared
C11_Witness ==
    /\ spc = "returned"
    /\ Len(address) = 12
    /\ Len(known_address) = 12
    /\ Prefix(address, 8) = Prefix(known_address, 8)
    /\ address[9] # known_address[9]
    /\ similarity.common_suffix_length >= 3
    /\ similarity.type = "prefix"

----------------------------------------------------------------------------
(* AddressAnalyzer._extract_transfers_from_tx *)

\* line 730-755: the loop over the native balances computes each account's
\* difference and appends nothing
NativeBalanceStage(st, tx) == st

\* line 762-764, 769: pre_map.get((owner, mint), 0), the last record of a
\* key being the one kept
PreMapGet(pre_token_balances, owner, mint) ==
    LET hits == SelectSeq(pre_token_balances,
                          LAMBDA b : b.owner = owner /\ b.mint = mint)
    IN  IF Len(hits) = 0 THEN 0 ELSE IntOf(hits[Len(hits)].amount)

\* line 776-782
AnalyzerTransfer(bal, diff) ==
    [type |-> "SPL", mint |-> bal.mint,
     source |-> IF diff > 0 THEN "unknown" ELSE bal.owner,
     destination |-> IF diff > 0 THEN bal.owner ELSE "unknown",
     amount |-> Abs(diff)]

\* line 766-784
RECURSIVE PostBalanceLoop(_, _, _, _)
PostBalanceLoop(st, pre_token_balances, post_token_balances, i) ==
    IF i > Len(post_token_balances) THEN st
    ELSE LET bal == post_token_balances[i]
             diff == IntOf(bal.amount) - PreMapGet(pre_token_balances, bal.owner, bal.mint)
         IN  PostBalanceLoop(IF diff # 0 THEN Emit(st, AnalyzerTransfer(bal, diff)) ELSE st,
                             pre_token_balances, post_token_balances, i + 1)

\* line 723-787; int() of an amount that is no number raises out of the call
_extract_transfers_from_tx(tx) ==
    IF BalancesRaise(tx.preTokenBalances) \/ BalancesRaise(tx.postTokenBalances)
    THEN Raise(NewExtraction)
    ELSE PostBalanceLoop(NativeBalanceStage(NewExtraction, tx),
                         tx.preTokenBalances, tx.postTokenBalances, 1)

\* a token balance record
Bal(owner, mint, n) == [owner |-> owner, mint |-> mint, amount |-> Dec(n)]

\* a transaction as the analyzer reads it: account keys with a pubkey each,
\* native balances per account key, token balances
AnalyzerTransaction(keys, native_pre, native_post, pre, post) ==
    [accountKeys |-> [i \in 1..Len(keys) |-> [pubkey |-> keys[i]]],
     preBalances |-> native_pre, postBalances |-> native_post, fee |-> 1,
     preTokenBalances |-> pre, postTokenBalances |-> post,
     signature |-> NoneV, blockTime |-> 0]

----------------------------------------------------------------------------
(* AddressAnalyzer.detect_layering_patterns *)

Max(a, b) == IF a > b THEN a ELSE b

\* line 370, 380
OutgoingTransfers(ts, addr) == SelectSeq(ts, LAMBDA t : t.source = addr)
IncomingTransfers(ts, addr) == SelectSeq(ts, LAMBDA t : t.destination = addr)

\* line 371-378
SplitEvent(sig_info, outgoing_transfers) ==
    [tx_hash |-> sig_info.signature, time |-> sig_info.blockTime,
     parties |-> [i \in 1..Len(outgoing_transfers) |-> outgoing_transfers[i].destination],
     amount |-> SumAmounts(outgoing_transfers)]

\* line 381-387
AggregationEvent(sig_info, incoming_transfers) ==
    [tx_hash |-> sig_info.signature, time |-> sig_info.blockTime,
     parties |-> [i \in 1..Len(incoming_transfers) |-> incoming_transfers[i].source],
     amount |-> SumAmounts(incoming_transfers)]

\* line 371, 381: more than two transfers make an event
ManyTransfers(found) == Len(found) > 2

\* one round of "for sig_info in recent_signatures" (line 359-390): a
\* failing get_transaction, an empty result and a raising extraction leave
\* the events as they are
LayeringSignature(ev, entry, addr) ==
    IF entry.answer.fetch # "ok" THEN ev
    ELSE LET st == _extract_transfers_from_tx(entry.answer.tx_detail)
             outgoing_transfers == OutgoingTransfers(st.transfers, addr)
             incoming_transfers == IncomingTransfers(st.transfers, addr)
             ev1 == IF ManyTransfers(outgoing_transfers)
                    THEN [ev EXCEPT !.split_events =
                            Append(@, SplitEvent(entry, outgoing_transfers))]
                    ELSE ev
         IN  IF st.raised THEN ev
             ELSE IF ManyTransfers(incoming_transfers)
             THEN [ev1 EXCEPT !.aggregation_events =
                        Append(@, AggregationEvent(entry, incoming_transfers))]
             ELSE ev1

RECURSIVE LayeringSignatureLoop(_, _, _, _)
LayeringSignatureLoop(ev, recent_signatures, i, addr) ==
    IF i > Len(recent_signatures) THEN ev
    ELSE LayeringSignatureLoop(LayeringSignature(ev, recent_signatures[i], addr),
                               recent_signatures, i + 1, addr)

\* line 397-399: 0 < time_diff < 3600 and
\* abs(split - aggr) / max(split, aggr, 1) < 0.2
Correlated(split, aggr) ==
    LET time_diff == Abs(split.time - aggr.time)
    IN  /\ 0 < time_diff
        /\ time_diff < 3600
        /\ 5 * Abs(split.amount - aggr.amount) < Max(Max(split.amount, aggr.amount), 1)

\* line 400-409
Pattern(split, aggr) ==
    [type |-> "split_aggregate_correlation", split_tx |-> split.tx_hash,
     aggregate_tx |-> aggr.tx_hash, time_diff_seconds |-> Abs(split.time - aggr.time)]

\* the same loop without the break: every correlated aggregation adds a
\* pattern
RECURSIVE AggregationLoopWithoutBreak(_, _, _, _)
AggregationLoopWithoutBreak(results, split, aggregation_events, j) ==
    IF j > Len(aggregation_events) THEN results
    ELSE AggregationLoopWithoutBreak(
            IF Correlated(split, aggregation_events[j])
            THEN [results EXCEPT !.layering_detected = TRUE,
                                 !.confidence = Max(@, 6),
                                 !.patterns = Append(@, Pattern(split, aggregation_events[j]))]
            ELSE results,
            split, aggregation_events, j + 1)

\* "for aggr in aggregation_events" (line 394-409), left at the first
\* aggregation correlated with the split
RECURSIVE AggregationLoop(_, _, _, _)
AggregationLoop(results, split, aggregation_events, j) ==
    IF j > Len(aggregation_events) THEN results
    ELSE IF Correlated(split, aggregation_events[j])
    THEN [results EXCEPT !.layering_detected = TRUE,
                         !.confidence = Max(@, 6),
                         !.patterns = Append(@, Pattern(split, aggregation_events[j]))]
    ELSE AggregationLoop(results, split, aggregation_events, j + 1)

\* "for split in split_events" (line 393)
RECURSIVE SplitLoop(_, _, _, _)
SplitLoop(results, split_events, aggregation_events, i) ==
    IF i > Len(split_events) THEN results
    ELSE SplitLoop(AggregationLoop(results, split_events[i], aggregation_events, 1),
                   split_events, aggregation_events, i + 1)

\* line 313-418, with a client; a failing get_signatures_for_address ends
\* in the outer handler, which sets the error
detect_layering_patterns(addr, response) ==
    IF response.fails THEN [NewLayeringResults EXCEPT !.error = TRUE]
    ELSE LET recent_signatures == Recent(response.result)
             ev == LayeringSignatureLoop([split_events |-> <<>>, aggregation_events |-> <<>>],
                                         recent_signatures, 1, addr)
         IN  SplitLoop(NewLayeringResults, ev.split_events, ev.aggregation_events, 1)

----------------------------------------------------------------------------
(* The histories the layering detector reads *)

LayerMints == <<"M1", "M2", "M3">>
LayerParties == <<"A", "B", "C">>

\* the analyzed address pays one unit of one mint to each of three parties
\* (way 1), or is paid one by each (way 2)
OneMintBalances(addr, side) ==
    <<Bal(addr, "M1", IF side = 1 THEN 3 ELSE 0)>>
    \o [i \in 1..3 |-> Bal(LayerParties[i], "M1", IF side = 1 THEN 0 ELSE 1)]

\* the same with a different mint for each party
ThreeMintBalances(addr, side) ==
    [i \in 1..3 |-> Bal(addr, LayerMints[i], IF side = 1 THEN 1 ELSE 0)]
    \o [i \in 1..3 |-> Bal(LayerParties[i], LayerMints[i], IF side = 1 THEN 0 ELSE 1)]

LayerKeys(addr) == <<addr>> \o LayerParties

TokenOnly(addr, pre, post) ==
    AnalyzerTransaction(LayerKeys(addr), <<9, 9, 9, 9>>, <<9, 9, 9, 9>>, pre, post)

LayeringTransactions(addr) ==
    { TokenOnly(addr, OneMintBalances(addr, 1), OneMintBalances(addr, 2)),
      TokenOnly(addr, OneMintBalances(addr, 2), OneMintBalances(addr, 1)),
      TokenOnly(addr, ThreeMintBalances(addr, 1), ThreeMintBalances(addr, 2)),
      TokenOnly(addr, ThreeMintBalances(addr, 2), ThreeMintBalances(addr, 1)),
      TokenOnly(addr, <<>>, <<[owner |-> addr, mint |-> "M1", amount |-> EmptyStr]>>) }

\* what get_transaction may do for a signature of the history
LayeringAnswers(addr) ==
    {[fetch |-> f, tx_detail |-> TokenOnly(addr, <<>>, <<>>)] : f \in {"raises", "empty"}}
    \cup {[fetch |-> "ok", tx_detail |-> t] : t \in LayeringTransactions(addr)}

\* block times: at the cutoff, and three after it, 1800 s and 4000 s apart
LayerTimes == {CutoffTime, CutoffTime + 1000, CutoffTime + 2800, CutoffTime + 5000}

LayerHistories(addr) ==
    UNION {[1..n -> [signature : {"sig"}, blockTime : LayerTimes,
                     answer : LayeringAnswers(addr)]] : n \in 0..MaxLayerHistory}

\* the i-th signature of a history is <<"sig", i>>
Numbered(h) == [i \in 1..Len(h) |-> [h[i] EXCEPT !.signature = <<"sig", i>>]]

InitLayering ==
    /\ layer_address = "S"
    /\ \E fails \in BOOLEAN : \E h \in LayerHistories("S") :
          /\ fails => h = <<>>
          /\ layer_history = [fails |-> fails, result |-> Numbered(h)]
    /\ layer_results = NewLayeringResults
    /\ lpc = "call"
    /\ IdleExtract
    /\ IdleGraph
    /\ IdleExpand
    /\ IdleSimilarity
    /\ IdleSandwich
    /\ IdleRoutes
    /\ IdlePaginate
    /\ IdleCorrelate
    /\ IdleProfit
    /\ IdleVerdict

DetectLayering ==
    /\ lpc = "call"
    /\ layer_results' = detect_layering_patterns(layer_address, layer_history)
    /\ lpc' = "returned"
    /\ UNCHANGED <<layer_address, layer_history>>
    /\ UNCHANGED <<extractVars, graphVars, expandVars, similarityVars, sandwichVars, routesVars,
                   paginateVars, correlateVars, profitVars, verdictVars>>

NextLayering == DetectLayering

SpecLayering == InitLayering /\ [][NextLayering]_vars

----------------------------------------------------------------------------
(* Properties of the layering detector *)

\* what a transaction does to an owner's balance of a mint
PreOf(tx, owner, mint) == PreMapGet(tx.preTokenBalances, owner, mint)
PostOf(tx, owner, mint) == PreMapGet(tx.postTokenBalances, owner, mint)

\* in tx, addr pays three distinct parties one unit each
PaysThree(tx, addr) ==
    /\ \E m \in {LayerMints[i] : i \in 1..3} : PostOf(tx, addr, m) < PreOf(tx, addr, m)
    /\ \A i \in 1..3 : \E m \in {LayerMints[k] : k \in 1..3} :
          PostOf(tx, LayerParties[i], m) = PreOf(tx, LayerParties[i], m) + 1

\* in tx, three distinct parties pay addr one unit each
PaidByThree(tx, addr) ==
    /\ \E m \in {LayerMints[i] : i \in 1..3} : PostOf(tx, addr, m) > PreOf(tx, addr, m)
    /\ \A i \in 1..3 : \E m \in {LayerMints[k] : k \in 1..3} :
          PostOf(tx, LayerParties[i], m) = PreOf(tx, LayerParties[i], m) - 1

\* the history is T1, in which the address pays three parties, and T2, in
\* which three parties pay it as much, less than an hour apart
SplitThenAggregate ==
    /\ ~layer_history.fails
    /\ Len(layer_history.result) = 2
    /\ \A i \in 1..2 : /\ layer_history.result[i].answer.fetch = "ok"
                       /\ layer_history.result[i].blockTime > CutoffTime
    /\ PaysThree(layer_history.result[1].answer.tx_detail, layer_address)
    /\ PaidByThree(layer_history.result[2].answer.tx_detail, layer_address)
    /\ Abs(layer_history.result[1].blockTime - layer_history.result[2].blockTime) \in 1..3599

\* C12: when the address has 3 outgoing transfers to 3 distinct
\* destinations in T1 and 3 incoming transfers of as much from 3 distinct
\* sources in T2, less than 3600 s apart, the detector emits exactly one
\* pattern pairing T1 with T2 and reports layering with confidence 0.6.
C12_LayeringDetected ==
    (lpc = "returned" /\ SplitThenAggregate) =>
        /\ layer_results.layering_detected
        /\ layer_results.confidence = 6
        /\ Len(layer_results.patterns) = 1
        /\ layer_results.patterns[1].split_tx = layer_history.result[1].signature
        /\ layer_results.patterns[1].aggregate_tx = layer_history.result[2].signature

----------------------------------------------------------------------------
(* SandwichDetector *)

RAYDIUM_AMM_V4 == "675kPX9MHTjS2zt1qfr1NYHuzeLXfQM9H24wFSUt1Mp8"

\* line 30-35 of sandwich_detector.py: self.dex_programs.get(program_id)
DexName(program_id) ==
    IF program_id = RAYDIUM_AMM_V4 THEN "Raydium AMM V4" ELSE NoneV

\* line 196-199: the top-level instructions, then those of each inner group
InstructionGroups(tx) ==
    tx.instructions
    \o Concat([g \in 1..Len(tx.innerInstructions) |-> tx.innerInstructions[g].instructions])

\* line 208: the instruction data begin with the discriminator "09"
IsRaydiumSwap(ix, account_keys) ==
    /\ DexName(account_keys[ix.programIdIndex + 1]) = "Raydium AMM V4"
    /\ Len(ix.data) > 0
    /\ ix.data[1] = "09"

\* line 214, 221: list.index of a fee payer that is no account key, and an
\* accounts list without a second entry, raise inside the try
SwapParseRaises(ix, tx) ==
    \/ ~\E k \in 1..Len(tx.accountKeys) : tx.accountKeys[k] = tx.feePayer
    \/ Len(ix.accounts) < 2

\* line 217-228: the signer is the fee payer, the pool the instruction's
\* second account, the mints and amounts are fixed
SwapInfo(ix, tx) ==
    [program |-> "Raydium AMM V4", signer |-> tx.feePayer,
     pool_id |-> tx.accountKeys[ix.accounts[2] + 1],
     input_token_mint |-> "MintA", output_token_mint |-> "MintB",
     input_amount |-> 100, output_amount |-> 50, execution_price |-> <<>>]

\* line 201-231
RECURSIVE SwapLoop(_, _, _, _)
SwapLoop(swaps, ixs, i, tx) ==
    IF i > Len(ixs) THEN swaps
    ELSE SwapLoop(IF IsRaydiumSwap(ixs[i], tx.accountKeys) /\ ~SwapParseRaises(ixs[i], tx)
                  THEN Append(swaps, SwapInfo(ixs[i], tx)) ELSE swaps,
                  ixs, i + 1, tx)

\* line 249-283: the map {mint: {owner: {account_idx: amount}}} of a
\* balance list, read at one mint and owner: the account indices in the
\* order of their first record, and the amount of the last record of an index
UiAccounts(bals, mint, owner) ==
    LET hits == SelectSeq(bals, LAMBDA b : Truthy(b.mint) /\ Truthy(b.owner)
                                           /\ b.mint = mint /\ b.owner = owner)
    IN  DistinctInOrder([k \in 1..Len(hits) |-> hits[k].accountIndex])

UiGet(bals, mint, owner, idx) ==
    LET hits == SelectSeq(bals, LAMBDA b : Truthy(b.mint) /\ Truthy(b.owner)
                                           /\ b.mint = mint /\ b.owner = owner
                                           /\ b.accountIndex = idx)
    IN  IF Len(hits) = 0 THEN 0 ELSE hits[Len(hits)].uiAmount

\* line 295-301: what the signer spent of the input mint
RECURSIVE SpentLoop(_, _, _, _, _, _)
SpentLoop(idxs, k, pre, post, mint, signer) ==
    IF k > Len(idxs) THEN 0
    ELSE LET diff == UiGet(post, mint, signer, idxs[k]) - UiGet(pre, mint, signer, idxs[k])
         IN  (IF diff < 0 THEN 0 - diff ELSE 0) + SpentLoop(idxs, k + 1, pre, post, mint, signer)

\* line 304-310: what the signer received of the output mint
RECURSIVE ReceivedLoop(_, _, _, _, _, _)
ReceivedLoop(idxs, k, pre, post, mint, signer) ==
    IF k > Len(idxs) THEN 0
    ELSE LET diff == UiGet(post, mint, signer, idxs[k]) - UiGet(pre, mint, signer, idxs[k])
         IN  (IF diff > 0 THEN diff ELSE 0) + ReceivedLoop(idxs, k + 1, pre, post, mint, signer)

\* line 286-325, for one swap
EnrichSwap(swap, pre, post) ==
    IF ~Truthy(swap.signer) THEN swap
    ELSE LET input_amount ==
                 SpentLoop(UiAccounts(pre, swap.input_token_mint, swap.signer), 1,
                           pre, post, swap.input_token_mint, swap.signer)
             output_amount ==
                 ReceivedLoop(UiAccounts(post, swap.output_token_mint, swap.signer), 1,
                              pre, post, swap.output_token_mint, swap.signer)
         IN  [swap EXCEPT
                !.input_amount = IF input_amount > 0 THEN input_amount ELSE @,
                !.output_amount = IF output_amount > 0 THEN output_amount ELSE @,
                !.execution_price = IF input_amount > 0 /\ output_amount > 0
                                    THEN <<output_amount, input_amount>> ELSE @]

\* line 243-327
_enrich_swaps_with_balance_changes(swaps, pre, post) ==
    IF Len(swaps) = 0 \/ Len(pre) = 0 \/ Len(post) = 0 THEN swaps
    ELSE [k \in 1..Len(swaps) |-> EnrichSwap(swaps[k], pre, post)]

\* line 183-241
_extract_swaps_from_tx(tx) ==
    _enrich_swaps_with_balance_changes(SwapLoop(<<>>, InstructionGroups(tx), 1, tx),
                                       tx.preTokenBalances, tx.postTokenBalances)

\* line 341-349: attacker_token_accounts.get(mint), the account index of the
\* last pre-balance record of the attacker that names the mint; <<>> for None
AttackerAccount(pre, attacker_signer, mint) ==
    LET hits == SelectSeq(pre, LAMBDA b : b.owner = attacker_signer /\ b.mint = mint)
    IN  IF Len(hits) = 0 THEN <<>> ELSE <<hits[Len(hits)].accountIndex>>

\* pre_map[idx][mint] or post_map[idx][mint], 0 when there is none
IndexGet(bals, idx, mint) ==
    LET hits == SelectSeq(bals, LAMBDA b : b.accountIndex = idx /\ b.mint = mint)
    IN  IF Len(hits) = 0 THEN 0 ELSE hits[Len(hits)].uiAmount

\* line 362-370: the attacker's change of one mint, taken at the account
\* found among the pre-balances when that account has a post-balance
AttackerChange(pre, post, attacker_signer, mint) ==
    LET acct == AttackerAccount(pre, attacker_signer, mint)
    IN  IF acct = <<>> \/ ~\E k \in 1..Len(post) : post[k].accountIndex = acct[1] THEN 0
        ELSE IndexGet(post, acct[1], mint) - IndexGet(pre, acct[1], mint)

\* line 329-380
_calculate_profit(attacker_signer, token_a_mint, token_b_mint, pre, post) ==
    LET change_a == AttackerChange(pre, post, attacker_signer, token_a_mint)
        change_b == AttackerChange(pre, post, attacker_signer, token_b_mint)
    IN  IF change_a > 0 /\ change_b < 0
        THEN [profit_amount |-> change_a, profit_token_mint |-> token_a_mint]
        ELSE IF change_b > 0 /\ change_a < 0
        THEN [profit_amount |-> change_b, profit_token_mint |-> token_b_mint]
        ELSE [profit_amount |-> 0, profit_token_mint |-> NoneV]

\* line 129-132: swap2 undoes swap1 in the same pool by the same signer
ReverseSwaps(swap1, swap2) ==
    /\ swap1.pool_id = swap2.pool_id
    /\ swap1.signer = swap2.signer
    /\ swap1.input_token_mint = swap2.output_token_mint
    /\ swap1.output_token_mint = swap2.input_token_mint

\* line 140-147: the first swap between swap i and swap j, in the pool, of
\* another signer; <<>> when there is none
VictimBetween(swaps, i, j) ==
    LET mids == {k \in (i + 1)..(j - 1) :
                    /\ swaps[k].pool_id = swaps[i].pool_id
                    /\ swaps[k].signer # swaps[i].signer}
    IN  IF mids = {} THEN <<>>
        ELSE <<swaps[CHOOSE k \in mids : \A m \in mids : k <= m]>>

\* a pair test that asks for one pool and one signer only: no reverse
\* directions, no victim in between, no profit
AnalyzePairOfOneSigner(swaps, i, j, tx) ==
    IF swaps[i].pool_id = swaps[j].pool_id /\ swaps[i].signer = swaps[j].signer
    THEN [found |-> TRUE, attacker_address |-> swaps[i].signer,
          victim_address |-> swaps[i].signer, profit_amount |-> 0]
    ELSE [found |-> FALSE, attacker_address |-> NoneV, victim_address |-> NoneV,
          profit_amount |-> 0]

\* line 124-180 for one pair i < j: the attack, or NoAttack
AnalyzePair(swaps, i, j, tx) ==
    LET victim == VictimBetween(swaps, i, j)
        profit == _calculate_profit(swaps[i].signer, swaps[i].input_token_mint,
                                    swaps[i].output_token_mint,
                                    tx.preTokenBalances, tx.postTokenBalances)
    IN  IF ReverseSwaps(swaps[i], swaps[j]) /\ victim # <<>> /\ profit.profit_amount > 0
        THEN [found |-> TRUE, attacker_address |-> swaps[i].signer,
              victim_address |-> victim[1].signer,
              profit_amount |-> profit.profit_amount]
        ELSE NoAttack

\* line 124-126: "for i, swap1 ... for j, swap2 ... if i >= j: continue",
\* left at the first pair that gives an attack
RECURSIVE PairLoop(_, _, _, _)
PairLoop(swaps, i, j, tx) ==
    IF i > Len(swaps) THEN NoAttack
    ELSE IF j > Len(swaps) THEN PairLoop(swaps, i + 1, 1, tx)
    ELSE IF i < j /\ AnalyzePair(swaps, i, j, tx).found THEN AnalyzePair(swaps, i, j, tx)
    ELSE PairLoop(swaps, i, j + 1, tx)

\* line 97-181
_analyze_tx_with_balance_changes(tx) ==
    LET swaps == _extract_swaps_from_tx(tx)
    IN  IF Len(swaps) < 2 THEN NoAttack ELSE PairLoop(swaps, 1, 1, tx)

----------------------------------------------------------------------------
(* The transactions the sandwich detector reads *)

\* account keys: two programs, the signers X and Y, the pool P, and X's
\* token accounts of mint1 and mint2 (indices 0..6)
SandwichKeys == <<RAYDIUM_AMM_V4, TOKEN_PROGRAM, "X", "Y", "P", "Xmint1", "Xmint2">>

KeyIndex(k) == CHOOSE i \in 0..(Len(SandwichKeys) - 1) : SandwichKeys[i + 1] = k

\* an instruction of program pid whose data decode to a swap of the user
\* in pool P (discriminator "09") or to something else
DexInstruction(pid, discriminator, user, input_mint, output_mint) ==
    [programIdIndex |-> KeyIndex(pid), data |-> <<discriminator, input_mint, output_mint>>,
     accounts |-> <<KeyIndex(user), KeyIndex("P")>>]

DexInstructions ==
    {DexInstruction(RAYDIUM_AMM_V4, "09", user, m[1], m[2]) :
        user \in {"X", "Y"}, m \in {<<"mint1", "mint2">>, <<"mint2", "mint1">>}}
    \cup {DexInstruction(RAYDIUM_AMM_V4, "0b", "X", "mint1", "mint2"),
          DexInstruction(TOKEN_PROGRAM, "09", "X", "mint1", "mint2")}

UiBal(idx, owner, mint, n) ==
    [accountIndex |-> idx, owner |-> owner, mint |-> mint, uiAmount |-> n]

\* X ends the transaction with more of mint1 and less of mint2
GainMint1Pre == <<UiBal(5, "X", "mint1", 1), UiBal(6, "X", "mint2", 5)>>
GainMint1Post == <<UiBal(5, "X", "mint1", 3), UiBal(6, "X", "mint2", 4)>>

SandwichTransaction(ixs, inner, fee_payer, pre, post) ==
    [accountKeys |-> SandwichKeys, feePayer |-> fee_payer, instructions |-> ixs,
     innerInstructions |-> inner, preTokenBalances |-> pre, postTokenBalances |-> post]

\* at most MaxSwaps instructions, all top-level or the last one the inner
\* instruction of the first
InitSandwich ==
    /\ \E n \in 0..MaxSwaps : \E ixs \in [1..n -> DexInstructions] :
       \E nested \in BOOLEAN : \E fee_payer \in {"X", NoneV} : \E gain \in BOOLEAN :
          /\ nested => n >= 2
          /\ sandwich_tx = SandwichTransaction(
                IF nested THEN SubSeq(ixs, 1, n - 1) ELSE ixs,
                IF nested THEN <<[index |-> 0, instructions |-> <<ixs[n]>>]>> ELSE <<>>,
                fee_payer,
                IF gain THEN GainMint1Pre ELSE <<>>,
                IF gain THEN GainMint1Post ELSE <<>>)
    /\ attack = NoAttack
    /\ wpc = "call"
    /\ IdleExtract
    /\ IdleGraph
    /\ IdleExpand
    /\ IdleSimilarity
    /\ IdleLayering
    /\ IdleRoutes
    /\ IdlePaginate
    /\ IdleCorrelate
    /\ IdleProfit
    /\ IdleVerdict

AnalyzeTx ==
    /\ wpc = "call"
    /\ attack' = _analyze_tx_with_balance_changes(sandwich_tx)
    /\ wpc' = "returned"
    /\ UNCHANGED sandwich_tx
    /\ UNCHANGED <<extractVars, graphVars, expandVars, similarityVars, layeringVars, routesVars,
                   paginateVars, correlateVars, profitVars, verdictVars>>

NextSandwich == AnalyzeTx

SpecSandwich == InitSandwich /\ [][NextSandwich]_vars

----------------------------------------------------------------------------
(* Properties of the sandwich detector *)

\* what the data of the k-th instruction decode to
SwapUser(tx, k) == tx.accountKeys[InstructionGroups(tx)[k].accounts[1] + 1]
SwapInput(tx, k) == InstructionGroups(tx)[k].data[2]
SwapOutput(tx, k) == InstructionGroups(tx)[k].data[3]

\* the transaction is swap A of X (mint1 -> mint2), swap B of Y
\* (mint1 -> mint2) and swap C of X (mint2 -> mint1), in this order and in
\* one pool, and X's balances show more of mint1 and less of mint2
SandwichScenario(tx) ==
    /\ Len(InstructionGroups(tx)) = 3
    /\ \A k \in 1..3 : IsRaydiumSwap(InstructionGroups(tx)[k], tx.accountKeys)
    /\ tx.feePayer = "X"
    /\ SwapUser(tx, 1) = "X" /\ SwapInput(tx, 1) = "mint1" /\ SwapOutput(tx, 1) = "mint2"
    /\ SwapUser(tx, 2) = "Y" /\ SwapInput(tx, 2) = "mint1" /\ SwapOutput(tx, 2) = "mint2"
    /\ SwapUser(tx, 3) = "X" /\ SwapInput(tx, 3) = "mint2" /\ SwapOutput(tx, 3) = "mint1"
    /\ tx.preTokenBalances = GainMint1Pre
    /\ tx.postTokenBalances = GainMint1Post

\* C13: for a transaction of swap A (signer X, mint1 -> mint2, pool P),
\* swap B (signer Y, mint1 -> mint2, pool P) and swap C (signer X,
\* mint2 -> mint1, pool P), X gaining mint1 and losing mint2, the call
\* returns a candidate with attacker X and victim Y.
C13_SandwichDetected ==
    (wpc = "returned" /\ SandwichScenario(sandwich_tx)) =>
        /\ attack.found
        /\ attack.attacker_address = "X"
        /\ attack.victim_address = "Y"

\* C14: a failing history fetch or transaction fetch does not end the
\* expansion: every enqueued address still has its history asked for, every
\* signature listed still has its transaction asked for, and the nodes and
\* edges of the graph at the failure are in the returned graph.
C14_SkipAndContinue ==
    /\ \A k \in {"history", "transaction"} :
          failed[k] # <<>> =>
              /\ failed[k][1].nodes \subseteq DOMAIN FG.nodes
              /\ failed[k][1].edges \subseteq DOMAIN FG.edges
    /\ epc = "returned" =>
          /\ enqueued \subseteq expanded
          /\ listed \subseteq asked

\* both fetches have failed, the graph had an edge when the transaction
\* fetch failed, and signatures were still taken up and the graph still
\* grew before it was returned
C14_Witness ==
    /\ epc = "returned"
    /\ failed.history # <<>>
    /\ failed.transaction # <<>>
    /\ failed.transaction[1].edges # {}
    /\ failed.transaction[1].edges # DOMAIN FG.edges
    /\ failed.history[1].edges # DOMAIN FG.edges
    /\ Cardinality(expanded) >= 2

\* C16: the flow graph is append-only: a node or an edge that is in the
\* graph after one step of the expansion is still in it after the next,
\* and the transfer an edge records is still recorded, unchanged.
C16_AppendOnly ==
    [][/\ \A n \in DOMAIN FG.nodes : n \in DOMAIN FG'.nodes
       /\ \A p \in DOMAIN FG.edges :
             /\ p \in DOMAIN FG'.edges
             /\ FG'.edges[p].tx_hash = FG.edges[p].tx_hash
             /\ FG'.edges[p].amount = FG.edges[p].amount]_vars

----------------------------------------------------------------------------
(* The order of the list _extract_transfers returns *)

\* the inner instructions of the groups whose index is ix_idx, group after
\* group in the order the transaction lists them
OwnInnerInstructions(tx, ix_idx) ==
    Concat([g \in 1..Len(tx.innerInstructions) |->
               IF tx.innerInstructions[g].index = ix_idx
               THEN tx.innerInstructions[g].instructions ELSE <<>>])

\* every instruction the walk parses: a top-level instruction, then its own
\* inner instructions, then the next top-level instruction
InstructionOrder(tx) ==
    Concat([i \in 1..Len(tx.instructions) |->
               IF BadProgramIndex(tx.instructions[i], tx.accountKeys) THEN <<>>
               ELSE <<tx.instructions[i]>> \o OwnInnerInstructions(tx, i - 1)])

\* the transfers one instruction yields on its own
Contribution(ix, account_keys) ==
    ParseInstruction(ix, account_keys, NewExtraction).transfers

InstructionParsed(ts) == SelectSeq(ts, LAMBDA t : ~t.detected_from_balances)

\* C17: in the list a call returns, every transfer parsed from an
\* instruction comes before every transfer reconciled from the balances,
\* and the parsed transfers are those of top-level instruction 0, then of
\* its own inner groups in their order, then of top-level instruction 1, ...
C17_OutputOrder ==
    (xpc = "returned" /\ ~raised) =>
        LET parsed == InstructionParsed(transfers)
            order == InstructionOrder(tx_detail)
        IN  /\ \A i \in 1..Len(transfers) :
                  (i <= Len(parsed)) <=> ~transfers[i].detected_from_balances
            /\ parsed = Concat([j \in 1..Len(order) |->
                                  Contribution(order[j], tx_detail.accountKeys)])

\* a returned list that holds, in this order, the transfer of the first
\* top-level instruction, one of its inner group, the transfer of the
\* second top-level instruction and a transfer reconciled from the balances
C17_Witness ==
    /\ xpc = "returned" /\ ~raised
    /\ Len(tx_detail.instructions) = 2
    /\ Len(tx_detail.innerInstructions) = 1
    /\ tx_detail.innerInstructions[1].index = 0
    /\ Len(transfers) = 4
    /\ <<transfers[1]>> = Contribution(tx_detail.instructions[1], tx_detail.accountKeys)
    /\ <<transfers[2]>> = Contribution(tx_detail.innerInstructions[1].instructions[1],
                                       tx_detail.accountKeys)
    /\ <<transfers[3]>> = Contribution(tx_detail.instructions[2], tx_detail.accountKeys)
    /\ transfers[4].detected_from_balances
    /\ transfers[1] # transfers[2] /\ transfers[2] # transfers[3]
    /\ transfers[1] # transfers[3]
----------------------------------------------------------------------------
(* Native balances and the balance stage *)

\* every instruction of the transaction, top-level or inner
AllInstructions(tx) ==
    {tx.instructions[i] : i \in 1..Len(tx.instructions)}
    \cup UNION {{tx.innerInstructions[g].instructions[k] :
                    k \in 1..Len(tx.innerInstructions[g].instructions)} :
                 g \in 1..Len(tx.innerInstructions)}

\* ix is addressed to the System program and is a transfer
NativeTransferInstruction(ix, account_keys) ==
    /\ ~BadProgramIndex(ix, account_keys)
    /\ ProgramId(ix, account_keys) = SYSTEM_PROGRAM
    /\ ix.type \in {"transfer", "transferWithSeed"}

WithoutNativeBalances(tx) == [tx EXCEPT !.preBalances = <<>>, !.postBalances = <<>>]

\* C18: in the list a call returns, every native-coin transfer is what a
\* System transfer instruction of the transaction yields, every transfer
\* the balance stage adds is a token transfer, and the list is the one the
\* same transaction yields without its native balances
C18_NativeNotReconciled ==
    (xpc = "returned" /\ ~raised) =>
        /\ \A i \in 1..Len(transfers) :
              /\ transfers[i].detected_from_balances =>
                    transfers[i].type = "SPL" /\ transfers[i].mint # "SOL"
              /\ (transfers[i].type = "SOL" \/ transfers[i].mint = "SOL") =>
                    \E ix \in AllInstructions(tx_detail) :
                        /\ NativeTransferInstruction(ix, tx_detail.accountKeys)
                        /\ <<transfers[i]>> = Contribution(ix, tx_detail.accountKeys)
        /\ transfers = _extract_transfers(WithoutNativeBalances(tx_detail)).transfers

\* a returned list with a native transfer and a balance-stage transfer,
\* for a transaction whose native balances change
C18_Witness ==
    /\ xpc = "returned" /\ ~raised
    /\ tx_detail.preBalances # tx_detail.postBalances
    /\ \E i \in 1..Len(transfers) : transfers[i].type = "SOL"
    /\ \E i \in 1..Len(transfers) : transfers[i].detected_from_balances
----------------------------------------------------------------------------
(* AddressAnalyzer.detect_money_laundering_routes *)

TORNADO_ROUTER == "tor1xzb2Zyy1cUxXmyJfR8aNXuWnwHG8AwgaG7UGD4K"
WORMHOLE_LOCK == "wormDTUJ6AWPNvk59vGQbDvGJmqbDTdgWgAqcLBCgUb"
WORMHOLE_CLAIM == "worm2ZoG2kUd4vFXhvjh93UUH596ayRfgQ2MgjNMTth"

known_mixers == {TORNADO_ROUTER}
known_bridges == {WORMHOLE_LOCK, WORMHOLE_CLAIM}

\* the running state of a route detector: its routes list, and whether
\* _extract_transfers_from_tx raised out of it
NewRoutes == [routes |-> <<>>, raised |-> FALSE]

MixerRoute(type, tx, mixer_address, transfer, risk_score) ==
    [type |-> type, tx_hash |-> tx.signature, mixer_address |-> mixer_address,
     amount |-> transfer.amount, mint |-> transfer.mint,
     timestamp |-> tx.blockTime, risk_score |-> risk_score]

\* line 801-825: the routes one transfer adds
MixerTransfer(addr, tx, transfer) ==
    IF transfer.destination \in known_mixers /\ transfer.source = addr
    THEN <<MixerRoute("mixer_deposit", tx, transfer.destination, transfer, 80)>>
    ELSE IF transfer.source \in known_mixers /\ transfer.destination = addr
    THEN <<MixerRoute("mixer_withdrawal", tx, transfer.source, transfer, 70)>>
    ELSE <<>>

BridgeRoute(type, tx, bridge_address, transfer, risk_score) ==
    [type |-> type, tx_hash |-> tx.signature, bridge_address |-> bridge_address,
     amount |-> transfer.amount, mint |-> transfer.mint,
     timestamp |-> tx.blockTime, risk_score |-> risk_score]

\* line 841-862
BridgeTransfer(addr, tx, transfer) ==
    IF transfer.destination \in known_bridges /\ transfer.source = addr
    THEN <<BridgeRoute("bridge_outbound", tx, transfer.destination, transfer, 60)>>
    ELSE IF transfer.source \in known_bridges /\ transfer.destination = addr
    THEN <<BridgeRoute("bridge_inbound", tx, transfer.source, transfer, 50)>>
    ELSE <<>>

ExchangeRoute(type, tx, exchange_address, transfer) ==
    [type |-> type, tx_hash |-> tx.signature, exchange_address |-> exchange_address,
     amount |-> transfer.amount, mint |-> transfer.mint,
     timestamp |-> tx.blockTime, risk_score |-> 40]

\* line 878-909: a counterparty that is not "unknown", and an amount
\* above 1000
ExchangeTransfer(addr, tx, transfer) ==
    IF transfer.source = addr /\ transfer.destination # "unknown"
    THEN IF transfer.amount > 1000
         THEN <<ExchangeRoute("exchange_deposit", tx, transfer.destination, transfer)>>
         ELSE <<>>
    ELSE IF transfer.destination = addr /\ transfer.source # "unknown"
    THEN IF transfer.amount > 1000
         THEN <<ExchangeRoute("exchange_withdrawal", tx, transfer.source, transfer)>>
         ELSE <<>>
    ELSE <<>>

\* the per-transfer rule of one of the three detectors
PerTransfer(detector, addr, tx, transfer) ==
    IF detector = "mixer" THEN MixerTransfer(addr, tx, transfer)
    ELSE IF detector = "bridge" THEN BridgeTransfer(addr, tx, transfer)
    ELSE ExchangeTransfer(addr, tx, transfer)

\* "for tx in transactions: transfers = self._extract_transfers_from_tx(tx);
\* for transfer in transfers", the loops all three detectors run
RECURSIVE RouteTransactionLoop(_, _, _, _, _)
RouteTransactionLoop(detector, addr, transactions, i, st) ==
    IF i > Len(transactions) \/ st.raised THEN st
    ELSE LET tx == transactions[i]
             ex == _extract_transfers_from_tx(tx)
         IN  RouteTransactionLoop(detector, addr, transactions, i + 1,
                IF ex.raised THEN [st EXCEPT !.raised = TRUE]
                ELSE [st EXCEPT !.routes =
                        @ \o Concat([k \in 1..Len(ex.transfers) |->
                                        PerTransfer(detector, addr, tx,
                                                    ex.transfers[k])])])

_detect_mixer_routes(addr, transactions) ==
    RouteTransactionLoop("mixer", addr, transactions, 1, NewRoutes)

_detect_bridge_routes(addr, transactions) ==
    RouteTransactionLoop("bridge", addr, transactions, 1, NewRoutes)

\* line 869: without a Range client there are no exchange routes
_detect_exchange_routes(addr, transactions, range_client) ==
    IF ~range_client THEN NewRoutes
    ELSE RouteTransactionLoop("exchange", addr, transactions, 1, NewRoutes)

\* line 912-935
_identify_laundering_patterns(routes) ==
    LET has(type) == \E i \in 1..Len(routes) : routes[i].type = type
    IN  (IF has("mixer_deposit") THEN {"Mixer Usage (Deposit)"} ELSE {})
        \cup (IF has("mixer_withdrawal") THEN {"Mixer Usage (Withdrawal)"} ELSE {})
        \cup (IF has("bridge_outbound") THEN {"Cross-Chain Bridging (Outbound)"} ELSE {})
        \cup (IF has("bridge_inbound") THEN {"Cross-Chain Bridging (Inbound)"} ELSE {})
        \cup (IF has("exchange_deposit") THEN {"Exchange Interaction (Deposit)"} ELSE {})
        \cup (IF has("exchange_withdrawal")
              THEN {"Exchange Interaction (Withdrawal)"} ELSE {})

RiskScoreOf(route) == route.risk_score

\* the sum of the scores
RECURSIVE SummedRiskScore(_)
SummedRiskScore(route_scores) ==
    IF Len(route_scores) = 0 THEN 0
    ELSE route_scores[1] + SummedRiskScore(Tail(route_scores))

\* line 263: max(route_scores) if route_scores else 0
RECURSIVE OverallRiskScore(_)
OverallRiskScore(route_scores) ==
    IF Len(route_scores) = 0 THEN 0
    ELSE IF Len(route_scores) = 1 THEN route_scores[1]
    ELSE Max(route_scores[1], OverallRiskScore(Tail(route_scores)))

\* line 226-234: the details of the recent signatures, a signature whose
\* get_transaction raises or returns no result being passed over
RECURSIVE HeliusTransactions(_, _)
HeliusTransactions(recent_signatures, i) ==
    IF i > Len(recent_signatures) THEN <<>>
    ELSE (IF recent_signatures[i].answer.fetch = "ok"
          THEN <<recent_signatures[i].answer.tx_detail>> ELSE <<>>)
         \o HeliusTransactions(recent_signatures, i + 1)

\* line 237-241: tx_data.get("transactions", [])
RangeTransactions(result) == [i \in 1..Len(result) |-> result[i].answer.tx_detail]

\* line 244-266, once the transactions are there
AnalyzeRoutes(addr, transactions, range_client) ==
    IF Len(transactions) = 0 THEN NewRouteResults
    ELSE LET mixer_routes == _detect_mixer_routes(addr, transactions)
             bridge_routes == _detect_bridge_routes(addr, transactions)
             exchange_routes == _detect_exchange_routes(addr, transactions, range_client)
         IN  IF mixer_routes.raised \/ bridge_routes.raised \/ exchange_routes.raised
             THEN [NewRouteResults EXCEPT !.error = TRUE]
             ELSE LET routes == mixer_routes.routes \o bridge_routes.routes
                                \o exchange_routes.routes
                  IN  [routes |-> routes,
                       risk_score |-> OverallRiskScore(MapSeq(RiskScoreOf, routes)),
                       patterns_detected |-> _identify_laundering_patterns(routes),
                       error |-> FALSE]

\* line 193-273; response is what the history call of the client in use
\* does: it fails, or it returns a list
detect_money_laundering_routes(addr, clients, response) ==
    IF ~clients.helius /\ ~clients.range THEN [NewRouteResults EXCEPT !.error = TRUE]
    ELSE IF response.fails THEN [NewRouteResults EXCEPT !.error = TRUE]
    ELSE IF clients.helius
         THEN AnalyzeRoutes(addr, HeliusTransactions(Recent(response.result), 1),
                            clients.range)
    ELSE AnalyzeRoutes(addr, RangeTransactions(response.result), clients.range)

----------------------------------------------------------------------------
(* The histories the route detector reads *)

\* most signatures in the history the route detector reads
MaxRouteHistory == 2

\* the decimal string of n thousand, n below 10
Thousands(n) == [neg |-> FALSE, digits |-> <<n, 0, 0, 0>>]

\* a transaction in which payer's token account falls from pre to post and
\* payee's rises from nothing by as much
Payment(payer, payee, pre, post, paid) ==
    AnalyzerTransaction(<<payer, payee>>, <<9, 9>>, <<9, 9>>,
        <<[owner |-> payer, mint |-> "M1", amount |-> pre],
          [owner |-> payee, mint |-> "M1", amount |-> Dec(0)]>>,
        <<[owner |-> payer, mint |-> "M1", amount |-> post],
          [owner |-> payee, mint |-> "M1", amount |-> paid]>>)

\* "S" pays the mixer and is paid by it, pays one bridge account and is
\* paid by the other, pays 2000 to "X"; and a balance that is no number
RouteTransactions ==
    { Payment("S", TORNADO_ROUTER, Dec(5), Dec(3), Dec(2)),
      Payment(TORNADO_ROUTER, "S", Dec(5), Dec(3), Dec(2)),
      Payment("S", WORMHOLE_LOCK, Dec(5), Dec(3), Dec(2)),
      Payment(WORMHOLE_CLAIM, "S", Dec(5), Dec(3), Dec(2)),
      Payment("S", "X", Thousands(3), Thousands(1), Thousands(2)),
      Payment("S", "X", Dec(5), Dec(3), EmptyStr) }

RouteAnswers ==
    {[fetch |-> f, tx_detail |-> Payment("S", "X", Dec(0), Dec(0), Dec(0))] :
        f \in {"raises", "empty"}}
    \cup {[fetch |-> "ok", tx_detail |-> t] : t \in RouteTransactions}

RouteTimes == {CutoffTime, CutoffTime + 1000}

RouteHistories ==
    UNION {[1..n -> [signature : {"sig"}, blockTime : RouteTimes, answer : RouteAnswers]] :
             n \in 0..MaxRouteHistory}

\* the i-th signature of a history is <<"sig", i>>, and so is the signature
\* field of its transaction
RouteNumbered(h) ==
    [i \in 1..Len(h) |->
        [h[i] EXCEPT !.signature = <<"sig", i>>,
                     !.answer.tx_detail.signature = <<"sig", i>>,
                     !.answer.tx_detail.blockTime = h[i].blockTime]]

\* the analyzed address is "S" or the literal "unknown"; a history read
\* from Range holds transactions only
InitRoutes ==
    /\ route_address \in {"S", "unknown"}
    /\ route_clients \in [helius : BOOLEAN, range : BOOLEAN]
    /\ \E fails \in BOOLEAN : \E h \in RouteHistories :
          /\ fails => h = <<>>
          /\ ~route_clients.helius => \A i \in 1..Len(h) : h[i].answer.fetch = "ok"
          /\ route_history = [fails |-> fails, result |-> RouteNumbered(h)]
    /\ route_results = NewRouteResults
    /\ rtpc = "call"
    /\ IdleExtract
    /\ IdleGraph
    /\ IdleExpand
    /\ IdleSimilarity
    /\ IdleLayering
    /\ IdleSandwich
    /\ IdlePaginate
    /\ IdleCorrelate
    /\ IdleProfit
    /\ IdleVerdict

DetectRoutes ==
    /\ rtpc = "call"
    /\ route_results' = detect_money_laundering_routes(route_address, route_clients,
                                                       route_history)
    /\ rtpc' = "returned"
    /\ UNCHANGED <<route_address, route_clients, route_history>>
    /\ UNCHANGED <<extractVars, graphVars, expandVars, similarityVars, layeringVars,
                   sandwichVars, paginateVars, correlateVars, profitVars, verdictVars>>

NextRoutes == DetectRoutes

SpecRoutes == InitRoutes /\ [][NextRoutes]_vars
----------------------------------------------------------------------------
(* Properties of the route detector *)

\* the transactions the call analyzed
AnalyzedTransactions ==
    IF route_clients.helius
    THEN HeliusTransactions(Recent(route_history.result), 1)
    ELSE RangeTransactions(route_history.result)

\* in tx, payer's balance of some mint falls and payee's balance of it rises
MovesValue(tx, payer, payee) ==
    \E m \in {"M1"} :
        /\ PostOf(tx, payer, m) < PreOf(tx, payer, m)
        /\ PostOf(tx, payee, m) > PreOf(tx, payee, m)

\* the results hold a route of this type and score for tx
HasRoute(type, risk_score, tx) ==
    \E i \in 1..Len(route_results.routes) :
        /\ route_results.routes[i].type = type
        /\ route_results.routes[i].risk_score = risk_score
        /\ route_results.routes[i].tx_hash = tx.signature

\* C19: when an analyzed transaction moves value from the analyzed address
\* to a known mixer the results hold a mixer_deposit route of score 80 for
\* it, and a mixer_withdrawal of score 70 when value moves the other way;
\* for a known bridge, bridge_outbound of score 60 and bridge_inbound of 50
C19_RouteClassification ==
    (rtpc = "returned" /\ ~route_results.error) =>
        \A i \in 1..Len(AnalyzedTransactions) :
            LET tx == AnalyzedTransactions[i]
            IN  /\ \A mixer \in known_mixers :
                      /\ MovesValue(tx, route_address, mixer) =>
                            HasRoute("mixer_deposit", 80, tx)
                      /\ MovesValue(tx, mixer, route_address) =>
                            HasRoute("mixer_withdrawal", 70, tx)
                /\ \A bridge \in known_bridges :
                      /\ MovesValue(tx, route_address, bridge) =>
                            HasRoute("bridge_outbound", 60, tx)
                      /\ MovesValue(tx, bridge, route_address) =>
                            HasRoute("bridge_inbound", 50, tx)

\* C20: the risk_score of the results is the largest risk_score of their
\* routes and 0 when there is none, so one of 0, 40, 50, 60, 70, 80, and it
\* is no lower than the score of the same history without its last entry
C20_RiskIsMaximum ==
    rtpc = "returned" =>
        LET routes == route_results.routes
            shorter == [route_history EXCEPT
                          !.result = SubSeq(@, 1, Len(@) - 1)]
            before == detect_money_laundering_routes(route_address, route_clients, shorter)
        IN  /\ route_results.risk_score \in {0, 40, 50, 60, 70, 80}
            /\ Len(routes) = 0 => route_results.risk_score = 0
            /\ Len(routes) > 0 =>
                  /\ \E i \in 1..Len(routes) :
                        routes[i].risk_score = route_results.risk_score
                  /\ \A i \in 1..Len(routes) :
                        routes[i].risk_score <= route_results.risk_score
            /\ (Len(route_history.result) > 0 /\ ~route_results.error /\ ~before.error) =>
                  /\ Len(before.routes) <= Len(routes)
                  /\ before.risk_score <= route_results.risk_score

\* results with routes of different scores, the last of them lower than
\* the first, and more routes than the history without its last entry gives
C20_Witness ==
    /\ rtpc = "returned" /\ ~route_results.error
    /\ Len(route_results.routes) >= 2
    /\ route_results.routes[Len(route_results.routes)].risk_score
          < route_results.risk_score
    /\ LET shorter == [route_history EXCEPT !.result = SubSeq(@, 1, Len(@) - 1)]
           before == detect_money_laundering_routes(route_address, route_clients, shorter)
       IN  /\ ~before.error
           /\ 0 < Len(before.routes)
           /\ Len(before.routes) < Len(route_results.routes)
----------------------------------------------------------------------------
(* TransactionCollector.fetch_transactions_paginated
   (MixerCollector.fetch_transactions_paginated pages the same way and
   fetches the details without batches) *)

\* options = {"limit": 100}: the most signatures a page holds
PAGE_LIMIT == 100
\* batch_size of the detail loop
batch_size == 20

\* the largest limit_total argument, in hundreds
MaxLimitHundreds == 2

\* a limit below one page, and the limits at and just above each hundred
LimitTotals ==
    {1, 50} \cup UNION {{PAGE_LIMIT * k, PAGE_LIMIT * k + 1} : k \in 1..MaxLimitHundreds}

\* line 108
max_pages(limit) == (limit \div PAGE_LIMIT) + 1

\* the sizes of the page a provider returns: empty, short or full
PageSizes == {0, 1, 60, PAGE_LIMIT}

InitPaginate ==
    /\ limit_total \in LimitTotals
    /\ signature_count = 0
    /\ pages = 0
    /\ detail_index = 0
    /\ transaction_details = 0
    /\ ppc = "paging"
    /\ IdleExtract
    /\ IdleGraph
    /\ IdleExpand
    /\ IdleSimilarity
    /\ IdleLayering
    /\ IdleSandwich
    /\ IdleRoutes
    /\ IdleCorrelate
    /\ IdleProfit
    /\ IdleVerdict

\* line 111: while len(all_signatures) < limit_total and pages < max_pages
PagingGoesOn == signature_count < limit_total /\ pages < max_pages(limit_total)

\* line 112-130: one pass of the loop that returns a page with signatures
FetchPage ==
    /\ ppc = "paging"
    /\ PagingGoesOn
    /\ \E size \in PageSizes \ {0} :
          signature_count' = signature_count + size
    /\ pages' = pages + 1
    /\ UNCHANGED <<limit_total, detail_index, transaction_details, ppc>>
    /\ UNCHANGED <<extractVars, graphVars, expandVars, similarityVars, layeringVars,
                   sandwichVars, routesVars, correlateVars, profitVars, verdictVars>>

\* the loop ends: its condition is false, the page is empty (line 124-125)
\* or the call raised (line 133-135)
PagingEnds ==
    /\ ppc = "paging"
    /\ ppc' = "details"
    /\ UNCHANGED <<limit_total, signature_count, pages, detail_index,
                   transaction_details>>
    /\ UNCHANGED <<extractVars, graphVars, expandVars, similarityVars, layeringVars,
                   sandwichVars, routesVars, correlateVars, profitVars, verdictVars>>

\* len(all_signatures[i:i+batch_size])
BatchLength == Min(batch_size, signature_count - detail_index)

\* line 142-165: one batch; a detail is appended for every signature whose
\* answer holds a result (none, all but one, or all of the batch here)
FetchBatch ==
    /\ ppc = "details"
    /\ detail_index < signature_count
    /\ \E got \in {0, BatchLength - 1, BatchLength} :
          transaction_details' = transaction_details + got
    /\ detail_index' = detail_index + batch_size
    /\ UNCHANGED <<limit_total, signature_count, pages, ppc>>
    /\ UNCHANGED <<extractVars, graphVars, expandVars, similarityVars, layeringVars,
                   sandwichVars, routesVars, correlateVars, profitVars, verdictVars>>

\* line 170-171
PaginateReturn ==
    /\ ppc = "details"
    /\ detail_index >= signature_count
    /\ ppc' = "returned"
    /\ UNCHANGED <<limit_total, signature_count, pages, detail_index,
                   transaction_details>>
    /\ UNCHANGED <<extractVars, graphVars, expandVars, similarityVars, layeringVars,
                   sandwichVars, routesVars, correlateVars, profitVars, verdictVars>>

NextPaginate == FetchPage \/ PagingEnds \/ FetchBatch \/ PaginateReturn

SpecPaginate == InitPaginate /\ [][NextPaginate]_vars

\* C21: the list fetch_transactions_paginated returns holds at most
\* limit_total transactions
C21_AtMostLimitTotal ==
    ppc = "returned" => transaction_details <= limit_total

----------------------------------------------------------------------------
(* Malformed instructions *)

\* what one instruction does to an empty extraction
ParsedAlone(ix, account_keys) == ParseInstruction(ix, account_keys, NewExtraction)

\* the inner instructions of the groups attached to a top-level instruction
AttachedInnerInstructions(tx) ==
    UNION {{tx.innerInstructions[g].instructions[k] :
              k \in 1..Len(tx.innerInstructions[g].instructions)} :
           g \in {h \in 1..Len(tx.innerInstructions) :
                    tx.innerInstructions[h].index < Len(tx.instructions)}}

TopLevelInstructions(tx) == {tx.instructions[i] : i \in 1..Len(tx.instructions)}

\* C22: a call returns a list, whatever instruction of the transaction is
\* malformed, and the list holds the transfer of every instruction that
\* parses on its own, top-level or inner, the inner instructions attached to
\* a top-level instruction with a bad program index included
C22_SkippedOneAtATime ==
    xpc = "returned" =>
        /\ ~raised
        /\ \A ix \in TopLevelInstructions(tx_detail) \cup AttachedInnerInstructions(tx_detail) :
              LET alone == ParsedAlone(ix, tx_detail.accountKeys)
              IN  ~alone.raised =>
                    \A k \in 1..Len(alone.transfers) :
                        \E i \in 1..Len(transfers) : transfers[i] = alone.transfers[k]

----------------------------------------------------------------------------
(* Split and aggregation events *)

\* the events the loop over the recent signatures collects
LayeringEvents ==
    LayeringSignatureLoop([split_events |-> <<>>, aggregation_events |-> <<>>],
                          Recent(layer_history.result), 1, layer_address)

\* the resolved counterparties an event lists
DistinctParties(event) ==
    {event.parties[i] : i \in 1..Len(event.parties)} \ {"unknown", NoneV}

\* C23: every split event the detector records lists more than 2 distinct
\* resolved destinations, and every aggregation event more than 2 distinct
\* resolved sources
C23_DistinctCounterparties ==
    (lpc = "returned" /\ ~layer_history.fails) =>
        /\ \A i \in 1..Len(LayeringEvents.split_events) :
              Cardinality(DistinctParties(LayeringEvents.split_events[i])) > 2
        /\ \A i \in 1..Len(LayeringEvents.aggregation_events) :
              Cardinality(DistinctParties(LayeringEvents.aggregation_events[i])) > 2

----------------------------------------------------------------------------
(* The correlation loops of detect_layering_patterns on their own *)

\* most events of either kind
MaxEvents == 2

\* event times: two less than 3600 s apart, one 5000 s from the first
EventTimes == {CutoffTime + 1000, CutoffTime + 2000, CutoffTime + 6000}

\* event amounts: 10 and 11 are within 20 % of each other and so are 11
\* and 13; 10 and 13 are not
EventAmounts(kind) == IF kind = "split" THEN {10, 11} ELSE {11, 13}

EventLists(kind) ==
    UNION {{[i \in 1..n |-> [tx_hash |-> <<kind, i>>, time |-> e[i].time,
                             parties |-> <<"unknown", "unknown", "unknown">>,
                             amount |-> e[i].amount]] :
              e \in [1..n -> [time : EventTimes, amount : EventAmounts(kind)]]} :
           n \in 0..MaxEvents}

InitCorrelate ==
    /\ corr_split_events \in EventLists("split")
    /\ corr_aggregation_events \in EventLists("aggregate")
    /\ correlation = NewLayeringResults
    /\ cpc = "call"
    /\ IdleExtract
    /\ IdleGraph
    /\ IdleExpand
    /\ IdleSimilarity
    /\ IdleLayering
    /\ IdleSandwich
    /\ IdleRoutes
    /\ IdlePaginate
    /\ IdleProfit
    /\ IdleVerdict

\* line 393-409
CorrelateEvents ==
    /\ cpc = "call"
    /\ correlation' = SplitLoop(NewLayeringResults, corr_split_events, corr_aggregation_events, 1)
    /\ cpc' = "returned"
    /\ UNCHANGED <<corr_split_events, corr_aggregation_events>>
    /\ UNCHANGED <<extractVars, graphVars, expandVars, similarityVars, layeringVars,
                   sandwichVars, routesVars, paginateVars, profitVars, verdictVars>>

NextCorrelate == CorrelateEvents

SpecCorrelate == InitCorrelate /\ [][NextCorrelate]_vars

\* aggregation event j is within an hour of split event i, at another
\* time, and their amounts differ by less than a fifth of the larger
Qualifies(i, j) ==
    LET dt == Abs(corr_split_events[i].time - corr_aggregation_events[j].time)
        a == corr_split_events[i].amount
        b == corr_aggregation_events[j].amount
    IN  /\ 0 < dt /\ dt < 3600
        /\ 5 * Abs(a - b) < Max(Max(a, b), 1)

PatternsOf(i) ==
    {k \in 1..Len(correlation.patterns) :
        correlation.patterns[k].split_tx = corr_split_events[i].tx_hash}

\* C24: every split event has at most one pattern, which pairs it with the
\* first aggregation event that qualifies, and none when no aggregation
\* event qualifies; there are no more patterns than split events, none
\* has a time difference of 0, and the confidence is 0.6 when there is a
\* pattern and 0 when there is none
C24_OnePatternPerSplit ==
    cpc = "returned" =>
        /\ Len(correlation.patterns) <= Len(corr_split_events)
        /\ \A i \in 1..Len(corr_split_events) :
              LET qualifying == {j \in 1..Len(corr_aggregation_events) : Qualifies(i, j)}
              IN  /\ Cardinality(PatternsOf(i)) <= 1
                  /\ qualifying = {} <=> PatternsOf(i) = {}
                  /\ \A k \in PatternsOf(i) : \E j \in qualifying :
                        /\ \A h \in qualifying : j <= h
                        /\ correlation.patterns[k].aggregate_tx
                              = corr_aggregation_events[j].tx_hash
        /\ \A k \in 1..Len(correlation.patterns) :
              /\ correlation.patterns[k].time_diff_seconds # 0
              /\ \E i \in 1..Len(corr_split_events) : k \in PatternsOf(i)
        /\ correlation.confidence = (IF Len(correlation.patterns) > 0 THEN 6 ELSE 0)
        /\ correlation.layering_detected <=> Len(correlation.patterns) > 0

\* a split event with two qualifying aggregation events and one pattern,
\* next to an aggregation event at the time of a split event
C24_Witness ==
    /\ cpc = "returned"
    /\ Len(corr_aggregation_events) >= 2
    /\ \E i \in 1..Len(corr_split_events) :
          /\ Qualifies(i, 1) /\ Qualifies(i, 2)
          /\ Cardinality(PatternsOf(i)) = 1
    /\ \E i \in 1..Len(corr_split_events) : \E j \in 1..Len(corr_aggregation_events) :
          corr_split_events[i].time = corr_aggregation_events[j].time

----------------------------------------------------------------------------
(* Soundness of a sandwich candidate *)

\* the sum of the amounts of the records of an owner and a mint
RECURSIVE SumUi(_, _, _)
SumUi(bals, owner, mint) ==
    IF Len(bals) = 0 THEN 0
    ELSE (IF bals[1].owner = owner /\ bals[1].mint = mint THEN bals[1].uiAmount ELSE 0)
         + SumUi(Tail(bals), owner, mint)

\* what the transaction does to all of an owner's accounts of a mint
NetChange(tx, owner, mint) ==
    SumUi(tx.postTokenBalances, owner, mint) - SumUi(tx.preTokenBalances, owner, mint)

\* swaps i and j are reverse swaps of one signer in one pool, swap k lies
\* between them in that pool and is of another signer, and the signer's
\* balances of the two mints moved in opposite directions
SoundTriple(swaps, i, k, j, tx) ==
    /\ i < k /\ k < j
    /\ swaps[i].signer = swaps[j].signer
    /\ swaps[i].pool_id = swaps[j].pool_id
    /\ swaps[k].pool_id = swaps[i].pool_id
    /\ swaps[i].input_token_mint = swaps[j].output_token_mint
    /\ swaps[i].output_token_mint = swaps[j].input_token_mint
    /\ swaps[k].signer # swaps[i].signer
    /\ NetChange(tx, swaps[i].signer, swaps[i].input_token_mint)
         * NetChange(tx, swaps[i].signer, swaps[i].output_token_mint) < 0

----------------------------------------------------------------------------
(* SandwichDetector._calculate_profit on its own *)

\* most token accounts in the balance records
MaxProfitAccounts == 3

\* what an account's balance does: <<pre, post>>, a side without a record
\* being absent (the account is created or closed in the transaction)
ProfitChanges ==
    { <<Some(1), Some(3)>>, <<Some(5), Some(4)>>, <<Absent, Some(2)>>, <<Some(2), Absent>> }

\* account i has account index 4 + i
ProfitAccounts(n) ==
    [1..n -> [owner : {"X", "Y"}, mint : {"mint1", "mint2"}, change : ProfitChanges]]

\* the records of one side, in account order
RECURSIVE UiBalanceList(_, _, _)
UiBalanceList(accts, side, i) ==
    IF i > Len(accts) THEN <<>>
    ELSE (IF Has(accts[i].change[side])
          THEN <<UiBal(4 + i, accts[i].owner, accts[i].mint, accts[i].change[side][1])>>
          ELSE <<>>) \o UiBalanceList(accts, side, i + 1)

InitProfit ==
    /\ \E n \in 0..MaxProfitAccounts : \E accts \in ProfitAccounts(n) :
          profit_balances = [pre |-> UiBalanceList(accts, 1, 1),
                             post |-> UiBalanceList(accts, 2, 1)]
    /\ profit_result = [profit_amount |-> 0, profit_token_mint |-> NoneV]
    /\ fpc = "call"
    /\ IdleExtract
    /\ IdleGraph
    /\ IdleExpand
    /\ IdleSimilarity
    /\ IdleLayering
    /\ IdleSandwich
    /\ IdleRoutes
    /\ IdlePaginate
    /\ IdleCorrelate
    /\ IdleVerdict

\* the call _calculate_profit("X", "mint1", "mint2", pre_balances,
\* post_balances, account_keys)
CalculateProfit ==
    /\ fpc = "call"
    /\ profit_result' = _calculate_profit("X", "mint1", "mint2", profit_balances.pre,
                                   profit_balances.post)
    /\ fpc' = "returned"
    /\ UNCHANGED profit_balances
    /\ UNCHANGED <<extractVars, graphVars, expandVars, similarityVars, layeringVars,
                   sandwichVars, routesVars, paginateVars, correlateVars, verdictVars>>

NextProfit == CalculateProfit

SpecProfit == InitProfit /\ [][NextProfit]_vars

\* what the records do to all of X's accounts of a mint
NetOfAttacker(mint) ==
    SumUi(profit_balances.post, "X", mint) - SumUi(profit_balances.pre, "X", mint)

\* C26: the profit returned is the net change, over all of the attacker's
\* accounts, of the mint that rose while the other fell, and nothing when
\* the two net changes do not have opposite signs
C26_ProfitIsNetChange ==
    fpc = "returned" =>
        LET net_a == NetOfAttacker("mint1")
            net_b == NetOfAttacker("mint2")
        IN  profit_result = (IF net_a > 0 /\ net_b < 0
                      THEN [profit_amount |-> net_a, profit_token_mint |-> "mint1"]
                      ELSE IF net_b > 0 /\ net_a < 0
                      THEN [profit_amount |-> net_b, profit_token_mint |-> "mint2"]
                      ELSE [profit_amount |-> 0, profit_token_mint |-> NoneV])

----------------------------------------------------------------------------
(* The loop of build_transaction_flow_network runs to its end *)

\* line 171-239: the loop is sequential code, and every call to the provider
\* returns or raises, so a step that can be taken is taken
SpecExpandFair == SpecExpand /\ WF_vars(NextExpand)

\* the addresses of a set of queue entries
AddressesOf(entries) == {e[1] : e \in entries}

\* a step that appends to the queue appends addresses that were never in
\* the queue before, each of them once
EnqueuedOnce ==
    (Len(queue') > Len(queue)) =>
        LET new == (Len(queue) + 1)..Len(queue')
        IN  /\ \A i \in new :
                  queue'[i][1] \notin AddressesOf(enqueued) \cup {StartAddress}
            /\ \A i, j \in new : queue'[i][1] = queue'[j][1] => i = j

\* a step that pops an address and asks for its history pops an address
\* whose history was never asked for
FetchedOnce ==
    (AtLoopTop /\ queue # <<>> /\ queue' = Tail(queue)
        /\ ~PastDepth(queue[1][2], depth)) =>
        queue[1][1] \notin AddressesOf(expanded)

\* C27: for every depth and every provider with finite histories, transfer
\* cycles and transfers back to the seed included, the loop empties its
\* queue and returns, and every address is put into the queue at most once
\* and has its history asked for at most once
C27_TerminatesCycleSafe ==
    /\ <>(epc = "returned")
    /\ [][EnqueuedOnce /\ FetchedOnce]_vars

\* the call has returned a graph with the cycle S -> A -> S, after asking
\* for the histories of both addresses
C27_Witness ==
    /\ epc = "returned"
    /\ <<StartAddress, "A">> \in DOMAIN FG.edges
    /\ <<"A", StartAddress>> \in DOMAIN FG.edges
    /\ {StartAddress, "A"} \subseteq AddressesOf(expanded)

----------------------------------------------------------------------------
(* Unresolved endpoints and the two graphs *)

\* a call of build_transaction_graph or a call of
\* build_transaction_flow_network
InitGraphOrExpand == InitGraph \/ InitExpand

NextGraphOrExpand == NextGraph \/ NextExpand

SpecGraphOrExpand == InitGraphOrExpand /\ [][NextGraphOrExpand]_vars

UnresolvedArrival(a) == Unresolved(a.source) \/ Unresolved(a.destination)

\* the transfers taken up so far whose endpoints are both resolved
ResolvedArrivals ==
    {i \in 1..Len(arrived) : ~UnresolvedArrival(arrived[i])}

\* a transfer with an unresolved endpoint, between any two endpoints
UnresolvedTransfers ==
    {[source |-> x, destination |-> y, amount |-> 5, mint |-> "SOL"] :
        <<x, y>> \in {p \in (FlowEndpoints \cup {""}) \X (FlowEndpoints \cup {""}) :
                        Unresolved(p[1]) \/ Unresolved(p[2])}}

\* the state the loop of build_transaction_flow_network works on
ExpandState ==
    [g |-> FG, queue |-> queue, processed_addresses |-> processed_addresses]

\* C28: no node of either graph is the "unknown" marker or an empty or
\* missing address; the nodes and the edges of the transaction graph are
\* those of the transfers with two resolved endpoints; and a transfer with
\* an unresolved endpoint leaves either graph as it is: no node, no edge, no
\* edge's count or total changes
C28_UnresolvedStayOut ==
    /\ \A n \in G.nodes : ~Unresolved(n)
    /\ \A n \in DOMAIN FG.nodes : ~Unresolved(n)
    /\ \A p \in DOMAIN FG.edges : ~Unresolved(p[1]) /\ ~Unresolved(p[2])
    /\ G.nodes = UNION {{arrived[i].source, arrived[i].destination} :
                          i \in ResolvedArrivals}
    /\ DOMAIN G.edges = {<<arrived[i].source, arrived[i].destination>> :
                            i \in ResolvedArrivals}
    /\ \A t \in UnresolvedTransfers :
          /\ AddTransfer(G, t, 1, BlockTimeOf(1)) = G
          /\ \A a \in Addresses :
                FlowTransfer(ExpandState, t, a, 0, <<a, 1>>, BlockTimeOf(1), depth)
                    = ExpandState

\* the transaction graph has an edge, and a transfer with one resolved and
\* one unresolved endpoint was taken up
C28_Witness ==
    /\ DOMAIN G.edges # {}
    /\ \E i \in 1..Len(arrived) :
          /\ UnresolvedArrival(arrived[i])
          /\ ~(Unresolved(arrived[i].source) /\ Unresolved(arrived[i].destination))

----------------------------------------------------------------------------
(* What the balance stage credits to a receiving account *)

\* the post-balance records of an owner's accounts of a mint that rose
RisingAccounts(tx, owner, mint) ==
    {i \in 1..Len(tx.postTokenBalances) :
        /\ tx.postTokenBalances[i].owner = owner
        /\ tx.postTokenBalances[i].mint = mint
        /\ ~IntRaises(tx.postTokenBalances[i].amount)
        /\ RiseOf(tx, tx.postTokenBalances[i]) > 0}

\* the transfers the balance stage emitted to an owner in a mint
CreditedTo(owner, mint) ==
    {t \in 1..Len(transfers) :
        /\ transfers[t].detected_from_balances
        /\ transfers[t].destination = owner
        /\ transfers[t].mint = mint}

\* the amounts of the transfers numbered in S, summed
RECURSIVE SumCredited(_)
SumCredited(S) ==
    IF S = {} THEN 0
    ELSE LET t == CHOOSE y \in S : TRUE
         IN  transfers[t].amount + SumCredited(S \ {t})

\* the rises of the post-balance records numbered in S, summed
RECURSIVE SumRises(_, _)
SumRises(tx, S) ==
    IF S = {} THEN 0
    ELSE LET i == CHOOSE y \in S : TRUE
         IN  RiseOf(tx, tx.postTokenBalances[i]) + SumRises(tx, S \ {i})

\* C29: the balance stage emits at most one transfer for the rise of a
\* receiving token account, so what it credits to an owner in a mint is at
\* most what the owner's accounts of that mint rose by, even when several
\* other owners fell by as much; and every transfer it emits has a source
\* other than its destination, a positive amount that is the rise of an
\* account of the destination, and a source account of the mint that fell
\* by at least the amount
C29_NoOverAttribution ==
    Returned =>
        /\ \A b \in 1..Len(tx_detail.postTokenBalances) :
              LET owner == tx_detail.postTokenBalances[b].owner
                  mint == tx_detail.postTokenBalances[b].mint
              IN  /\ Cardinality(CreditedTo(owner, mint))
                        <= Cardinality(RisingAccounts(tx_detail, owner, mint))
                  /\ SumCredited(CreditedTo(owner, mint))
                        <= SumRises(tx_detail, RisingAccounts(tx_detail, owner, mint))
        /\ \A t \in 1..Len(transfers) :
              transfers[t].detected_from_balances =>
                 /\ transfers[t].source # transfers[t].destination
                 /\ transfers[t].amount > 0
                 /\ \E i \in RisingAccounts(tx_detail, transfers[t].destination,
                                            transfers[t].mint) :
                       RiseOf(tx_detail, tx_detail.postTokenBalances[i])
                           = transfers[t].amount
                 /\ \E k \in 1..Len(tx_detail.preTokenBalances) :
                       LET s == tx_detail.preTokenBalances[k]
                       IN  /\ s.owner = transfers[t].source
                           /\ s.mint = transfers[t].mint
                           /\ FallOf(tx_detail, s) >= transfers[t].amount

----------------------------------------------------------------------------
(* AddressPoisoningCollector._check_token_suspicious *)

MaxCalls == 4

VerdictMints == {"mintP", "mintQ"}

\* a metadata entry: None, something that is no dict, or a dict whose name
\* and symbol may be absent or empty
TokenMetadata ==
    {[type |-> t, name |-> Absent, symbol |-> Absent] : t \in {"None", "str"}}
    \cup [type : {"dict"}, name : {Absent, Some(""), Some("T")},
          symbol : {Absent, Some(""), Some("T")}]

NoMetadata == [type |-> "None", name |-> Absent, symbol |-> Absent]

\* what get_token_metadata_async([mint]) may do: raise, answer without a
\* "result" key, answer an empty list, or answer a list of one entry
ProviderOutcomes ==
    {[kind |-> k, metadata |-> NoMetadata] : k \in {"raises", "no_result", "empty_list"}}
    \cup {[kind |-> "list", metadata |-> md] : md \in TokenMetadata}

\* line 130-135: without get_token_metadata_async the answer is
\* {"result": [None]} and the provider is not asked
MetadataAnswer(has_async, outcome) ==
    IF has_async THEN outcome ELSE [kind |-> "list", metadata |-> NoMetadata]

\* line 131, 137, 140: what raises inside the try block: the provider, [0]
\* of an empty list, .get of an entry that is no dict
MetadataRaises(answer) ==
    \/ answer.kind \in {"raises", "empty_list"}
    \/ answer.kind = "list" /\ answer.metadata.type = "str"

\* metadata.get(key) is falsy
FalsyField(field) == ~Has(field) \/ field[1] = ""

\* line 140: not metadata or (no name and no symbol); an empty dict is
\* falsy as well
IsSuspicious(answer) ==
    \/ answer.kind = "no_result"
    \/ answer.metadata.type = "None"
    \/ FalsyField(answer.metadata.name) /\ FalsyField(answer.metadata.symbol)

\* mint -> verdict with one more entry
CacheSet(cache, mint, verdict) ==
    [m \in DOMAIN cache \cup {mint} |-> IF m = mint THEN verdict ELSE cache[m]]

\* line 128-152: the provider is asked, and the verdict is stored and
\* returned; False after an exception
EvaluateToken(cache, mint, has_async, outcome) ==
    LET answer == MetadataAnswer(has_async, outcome)
        is_suspicious == IF MetadataRaises(answer) THEN FALSE ELSE IsSuspicious(answer)
    IN  [cache |-> CacheSet(cache, mint, is_suspicious),
         returned |-> is_suspicious,
         queried |-> has_async,
         failed |-> MetadataRaises(answer)]

\* a check that looks nothing up in the cache
CheckEveryTime(cache, mint, has_async, outcome) ==
    EvaluateToken(cache, mint, has_async, outcome)

\* line 123-152
_check_token_suspicious(cache, mint, has_async, outcome) ==
    IF mint \in DOMAIN cache
    THEN [cache |-> cache, returned |-> cache[mint], queried |-> FALSE, failed |-> FALSE]
    ELSE EvaluateToken(cache, mint, has_async, outcome)

InitVerdict ==
    /\ token_metadata_cache = <<>>
    /\ has_metadata_async \in BOOLEAN
    /\ verdict_calls = <<>>
    /\ tpc = "ready"
    /\ IdleExtract
    /\ IdleGraph
    /\ IdleExpand
    /\ IdleSimilarity
    /\ IdleLayering
    /\ IdleSandwich
    /\ IdleRoutes
    /\ IdlePaginate
    /\ IdleCorrelate
    /\ IdleProfit

\* line 101: one awaited call of _check_token_suspicious(mint); the calls
\* of analyze_poisoning_attempts come one after the other
CheckTokenSuspicious ==
    /\ tpc = "ready"
    /\ Len(verdict_calls) < MaxCalls
    /\ \E mint \in VerdictMints : \E outcome \in ProviderOutcomes :
          LET r == _check_token_suspicious(token_metadata_cache, mint,
                                           has_metadata_async, outcome)
          IN  /\ token_metadata_cache' = r.cache
              /\ verdict_calls' = Append(verdict_calls,
                    [mint |-> mint, returned |-> r.returned,
                     queried |-> r.queried, failed |-> r.failed])
    /\ UNCHANGED <<has_metadata_async, tpc>>
    /\ UNCHANGED <<extractVars, graphVars, expandVars, similarityVars, layeringVars, sandwichVars,
                   routesVars, paginateVars, correlateVars, profitVars>>

NextVerdict == CheckTokenSuspicious

SpecVerdict == InitVerdict /\ [][NextVerdict]_vars

\* C30: once a call has stored a verdict for a mint, every later call for
\* the mint returns that verdict and does not ask the provider, whatever the
\* provider would answer; the cache holds that verdict; and a verdict stored
\* after a failure of the provider is False and is never evaluated again
C30_VerdictStable ==
    /\ \A i, j \in 1..Len(verdict_calls) :
          (i < j /\ verdict_calls[i].mint = verdict_calls[j].mint) =>
             /\ verdict_calls[j].returned = verdict_calls[i].returned
             /\ ~verdict_calls[j].queried
             /\ ~verdict_calls[j].failed
    /\ \A i \in 1..Len(verdict_calls) :
          /\ verdict_calls[i].mint \in DOMAIN token_metadata_cache
          /\ token_metadata_cache[verdict_calls[i].mint] = verdict_calls[i].returned
          /\ verdict_calls[i].failed => ~verdict_calls[i].returned

\* the provider failed in the first call for a mint, and the mint was
\* checked again after a call for another mint
C30_Witness ==
    \E i, j, k \in 1..Len(verdict_calls) :
        /\ i < j /\ j < k
        /\ verdict_calls[i].failed
        /\ verdict_calls[j].mint # verdict_calls[i].mint
        /\ verdict_calls[j].returned
        /\ verdict_calls[k].mint = verdict_calls[i].mint
====
